---- MODULE Spec2Model ----
(***************************************************************************)
(* Adaptive health questionnaire engine: the Questionnaire / Question      *)
(* model (models/questionnaire.py) and the RiskAssessmentService           *)
(* (services/risk_assessment.py).                                          *)
(*                                                                         *)
(* Conventions                                                             *)
(*  - a Python str is a sequence of one-character strings;                 *)
(*  - a Python value is a record [ty, s, n, b, l, enc]; ty names the       *)
(*    Python type and only the field that belongs to ty is meaningful;     *)
(*    enc = TRUE marks a str that is a Fernet token whose payload is s;    *)
(*  - floats are integers in hundredths (0.7 is 70); the product of a raw   *)
(*    score and a weight, and so the accumulated risk, is in               *)
(*    ten-thousandths (1.0 is 10000); risk_score, a percentage, is in      *)
(*    ten-thousandths too, so its range 0..100 is 0..1000000;              *)
(*  - datetime.utcnow() is the logical clock, which advances by one at     *)
(*    every call of an operation.                                          *)
(***************************************************************************)
EXTENDS Integers, Sequences, FiniteSets, TLC

(***************************************************************************)
(* Program constants                                                       *)
(***************************************************************************)
QUESTION_TYPES == <<"text", "numeric", "boolean", "choice", "multiple_choice">>

RISK_LEVELS == <<"LOW", "MEDIUM", "HIGH", "CRITICAL">>

MAX_QUESTIONS == 50

\* the float 1.0 in ten-thousandths
ONE == 10000

\* the factor that turns the final score into a percentage
PERCENT == 100

\* length of the Fernet token of a payload of fewer than 16 bytes
FERNET_TOKEN_LEN == 100

(***************************************************************************)
(* Bounds of the model                                                     *)
(***************************************************************************)
\* calls made on one questionnaire in Spec
MaxCalls == 5

\* questions created in Spec
MaxCreated == 2

\* in SpecCap: calls other than the add_question calls that fill the
\* questionnaire
CapExtraCalls == 2

\* in SpecCap: those calls are made while the questionnaire holds at most
\* this many questions, or is full
CapVaried == 1

\* calls started in SpecRisk
MaxRiskCalls == 5

\* questions created in SpecRisk
MaxRiskQuestions == 2

\* calls started in SpecAnalyze
MaxAnalyzeCalls == 4

\* in SpecFunctions: hundredths below 0.0 and above 1.0 that are classified
ScoreMargin == 5

\* in SpecFunctions: length of the factor lists that are normalized
MaxFactors == 2

\* the longest text over the alphabet given to sanitize_text
MaxTextLen == 3

\* the largest min_value and max_value of a rule set
MaxValue == 3

\* calls made on a questionnaire in SpecConstruct
MaxBuiltCalls == 3

\* calls started in SpecWeights
MaxWeightCalls == 5

\* the largest risk_weight a caller gives a question in SpecWeights
MaxRiskWeight == 2

\* calls started in SpecUnserialized
MaxUnserializedCalls == 7

\* requests that LLMService serves at a time in SpecProviders
MaxTasks == 2

\* requests started in SpecProviders
MaxProviderCalls == 3

(***************************************************************************)
(* Sequence helpers                                                        *)
(***************************************************************************)
Range(f) == {f[i] : i \in DOMAIN f}

IsPrefix(s, t) == Len(s) <= Len(t) /\ SubSeq(t, 1, Len(s)) = s

RECURSIVE Cat(_)
\* the TLA+ string spelled by a Python str
Cat(cs) == IF cs = <<>> THEN "" ELSE cs[1] \o Cat(Tail(cs))

RECURSIVE Join(_, _)
\* sep.join(strs), as a TLA+ string
Join(strs, sep) ==
    IF strs = <<>> THEN ""
    ELSE IF Len(strs) = 1 THEN Cat(strs[1])
    ELSE Cat(strs[1]) \o sep \o Join(Tail(strs), sep)

(***************************************************************************)
(* Python values                                                           *)
(***************************************************************************)
PyStr(cs)   == [ty |-> "str",  s |-> cs,   n |-> 0, b |-> FALSE, l |-> <<>>, enc |-> FALSE]
PyInt(k)    == [ty |-> "int",  s |-> <<>>, n |-> k, b |-> FALSE, l |-> <<>>, enc |-> FALSE]
\* a float, n in hundredths
PyFloat(h)  == [ty |-> "float", s |-> <<>>, n |-> h, b |-> FALSE, l |-> <<>>, enc |-> FALSE]
PyBool(x)   == [ty |-> "bool", s |-> <<>>, n |-> 0, b |-> x,     l |-> <<>>, enc |-> FALSE]
PyNone      == [ty |-> "none", s |-> <<>>, n |-> 0, b |-> FALSE, l |-> <<>>, enc |-> FALSE]
PyList(xs)  == [ty |-> "list", s |-> <<>>, n |-> 0, b |-> FALSE, l |-> xs,   enc |-> FALSE]

Digit == <<"0", "1", "2", "3", "4", "5", "6", "7", "8", "9">>

DigitValue(c) == CHOOSE d \in 0..9 : Digit[d + 1] = c

IsDigit(c) == \E d \in 0..9 : Digit[d + 1] = c

Whitespace == {" ", "\t", "\n", "\r"}

RECURSIVE NatChars(_)
NatChars(k) == IF k < 10 THEN <<Digit[k + 1]>>
               ELSE NatChars(k \div 10) \o <<Digit[(k % 10) + 1]>>

\* str(int)
IntChars(k) == IF k < 0 THEN <<"-">> \o NatChars(0 - k) ELSE NatChars(k)

RECURSIVE ListRepr(_)
\* the elements of repr(list of str), comma separated
ListRepr(xs) ==
    IF xs = <<>> THEN <<>>
    ELSE <<"'">> \o xs[1] \o <<"'">>
         \o (IF Len(xs) = 1 THEN <<>> ELSE <<",", " ">> \o ListRepr(Tail(xs)))

\* str(float) of a float given in hundredths: 70 is 0.7, 7 is 0.07, 200 is 2.0
FloatChars(h) ==
    LET a    == IF h < 0 THEN 0 - h ELSE h
        frac == IF a % 10 = 0 THEN <<Digit[((a % 100) \div 10) + 1]>>
                ELSE <<Digit[((a % 100) \div 10) + 1], Digit[(a % 10) + 1]>>
    IN  (IF h < 0 THEN <<"-">> ELSE <<>>) \o NatChars(a \div 100) \o <<".">> \o frac

\* str(value)
Str(v) ==
    CASE v.ty = "str"  -> v.s
      [] v.ty = "int"  -> IntChars(v.n)
      [] v.ty = "float" -> FloatChars(v.n)
      [] v.ty = "bool" -> IF v.b THEN <<"T", "r", "u", "e">>
                                 ELSE <<"F", "a", "l", "s", "e">>
      [] v.ty = "none" -> <<"N", "o", "n", "e">>
      [] v.ty = "list" -> <<"[">> \o ListRepr(v.l) \o <<"]">>

\* len(str(value)); a Fernet token of a short payload has 100 characters
StrLen(v) == IF v.ty = "str" /\ v.enc THEN FERNET_TOKEN_LEN ELSE Len(Str(v))

RECURSIVE StripLeft(_)
StripLeft(cs) == IF cs # <<>> /\ cs[1] \in Whitespace THEN StripLeft(Tail(cs)) ELSE cs

RECURSIVE StripRight(_)
StripRight(cs) ==
    IF cs # <<>> /\ cs[Len(cs)] \in Whitespace
    THEN StripRight(SubSeq(cs, 1, Len(cs) - 1)) ELSE cs

RECURSIVE DigitsValue(_)
DigitsValue(cs) == IF cs = <<>> THEN 0
                   ELSE 10 * DigitsValue(SubSeq(cs, 1, Len(cs) - 1))
                        + DigitValue(cs[Len(cs)])

AllDigits(cs) == cs # <<>> /\ \A i \in DOMAIN cs : IsDigit(cs[i])

\* float(str) of digits with a sign: [ok, n]
ParseDigits(body, negative) ==
    IF AllDigits(body)
    THEN [ok |-> TRUE, n |-> IF negative THEN 0 - DigitsValue(body) ELSE DigitsValue(body)]
    ELSE [ok |-> FALSE, n |-> 0]

ParseStripped(cs) ==
    IF cs # <<>> /\ cs[1] \in {"-", "+"} THEN ParseDigits(Tail(cs), cs[1] = "-")
    ELSE ParseDigits(cs, FALSE)

\* float(str): [ok, n]; the texts of the model spell integers or no number
ParseFloat(cs) == ParseStripped(StripRight(StripLeft(cs)))

FloatOfParsed(parsed) ==
    IF parsed.ok THEN [exc |-> "", n |-> 100 * parsed.n]
    ELSE [exc |-> "ValueError", n |-> 0]

\* float(value): exc is "" or the exception float() raises, n in hundredths.
\* A Fernet token (base64 text beginning gAAAAA) spells no number.
Float(v) ==
    CASE v.ty = "int"  -> [exc |-> "", n |-> 100 * v.n]
      [] v.ty = "float" -> [exc |-> "", n |-> v.n]
      [] v.ty = "bool" -> [exc |-> "", n |-> IF v.b THEN 100 ELSE 0]
      [] v.ty = "str"  ->
            IF v.enc THEN [exc |-> "ValueError", n |-> 0]
            ELSE FloatOfParsed(ParseFloat(v.s))
      [] OTHER -> [exc |-> "TypeError", n |-> 0]

\* fernet.encrypt(str(value).encode()).decode(): a str, the token of the text
Encrypt(v) == [ty |-> "str", s |-> Str(v), n |-> 0, b |-> FALSE, l |-> <<>>, enc |-> TRUE]

\* fernet.decrypt(token.encode()).decode()
Decrypt(tok) == [tok EXCEPT !.enc = FALSE]

(***************************************************************************)
(* Question                                                                *)
(***************************************************************************)
\* dict.get(key, default)
DictGet(d, k, default) == IF k \in DOMAIN d THEN d[k] ELSE default

\* the lgpd_metadata a Question gets when none is passed
DefaultLgpdMetadata ==
    [data_category |-> "health_data", retention_period |-> 365,
     consent_required |-> TRUE, processing_purpose |-> "health_assessment"]

\* Question.__init__ after the type check; id is the uuid4() drawn for it
NewQuestion(id, type, options, validation_rules, lgpd_metadata) ==
    [id |-> id, type |-> type, options |-> options,
     validation_rules |-> validation_rules, required |-> TRUE,
     dependencies |-> <<>>, risk_weight |-> 1,
     lgpd_metadata |-> lgpd_metadata]

\* try: float(response) except ValueError: errors.append(...)
NumericCheck(number) ==
    IF number.exc = "ValueError"
    THEN [exc |-> "", errors |-> <<"Response must be a number">>]
    ELSE [exc |-> number.exc, errors |-> <<>>]

\* a type validation that takes any list for a multiple_choice question
TypeCheckAnyList(question, response) ==
    CASE question.type = "numeric" -> NumericCheck(Float(response))
      [] question.type = "boolean" ->
            [exc |-> "",
             errors |-> IF response.ty # "bool"
                        THEN <<"Response must be true or false">> ELSE <<>>]
      [] question.type = "choice" ->
            [exc |-> "",
             errors |-> IF ~(response.ty = "str" /\ ~response.enc
                             /\ response.s \in Range(question.options))
                        THEN <<"Response must be one of: "
                               \o Join(question.options, ", ")>>
                        ELSE <<>>]
      [] question.type = "multiple_choice" ->
            [exc |-> "",
             errors |-> IF response.ty # "list"
                        THEN <<"Response must be a list of valid options: "
                               \o Join(question.options, ", ")>>
                        ELSE <<>>]
      [] OTHER -> [exc |-> "", errors |-> <<>>]

\* the type validation of validate_response: [exc, errors]
TypeCheck(question, response) ==
    CASE question.type = "numeric" -> NumericCheck(Float(response))
      [] question.type = "boolean" ->
            [exc |-> "",
             errors |-> IF response.ty # "bool"
                        THEN <<"Response must be true or false">> ELSE <<>>]
      [] question.type = "choice" ->
            [exc |-> "",
             errors |-> IF ~(response.ty = "str" /\ ~response.enc
                             /\ response.s \in Range(question.options))
                        THEN <<"Response must be one of: "
                               \o Join(question.options, ", ")>>
                        ELSE <<>>]
      [] question.type = "multiple_choice" ->
            [exc |-> "",
             errors |-> IF response.ty # "list"
                           \/ ~(\A i \in DOMAIN response.l :
                                    response.l[i] \in Range(question.options))
                        THEN <<"Response must be a list of valid options: "
                               \o Join(question.options, ", ")>>
                        ELSE <<>>]
      [] OTHER -> [exc |-> "", errors |-> <<>>]

\* rule == "min_length" and len(str(response)) < value, and max_length
LengthRule(violated, r, text) ==
    [exc |-> "",
     errors |-> IF violated THEN <<text \o ToString(r.value) \o " characters long">>
                ELSE <<>>]

\* rule == "min_value" and float(response) < value; the max_value rule
\* makes the same comparison
ValueRule(number, r, text) ==
    IF number.exc # "" THEN [exc |-> number.exc, errors |-> <<>>]
    ELSE [exc |-> "",
          errors |-> IF number.n < 100 * r.value THEN <<text \o ToString(r.value)>>
                     ELSE <<>>]

\* one pass of the loop over validation_rules: [exc, errors]
ApplyRule(r, response) ==
    CASE r.rule = "min_length" ->
            LengthRule(StrLen(response) < r.value, r, "Response must be at least ")
      [] r.rule = "max_length" ->
            LengthRule(StrLen(response) > r.value, r, "Response must be at most ")
      [] r.rule = "min_value" ->
            ValueRule(Float(response), r, "Response must be at least ")
      [] r.rule = "max_value" ->
            ValueRule(Float(response), r, "Response must be at most ")
      [] OTHER -> [exc |-> "", errors |-> <<>>]

RECURSIVE ApplyRules(_, _, _)
RECURSIVE RulesAfter(_, _, _, _)
\* the loop over validation_rules in insertion order, from the errors so far
ApplyRules(rules, response, errors) ==
    IF rules = <<>> THEN [exc |-> "", errors |-> errors]
    ELSE RulesAfter(ApplyRule(rules[1], response), Tail(rules), response, errors)

\* the rest of the loop after one rule; an exception leaves the loop
RulesAfter(one, rest, response, errors) ==
    IF one.exc # "" THEN [exc |-> one.exc, errors |-> errors]
    ELSE ApplyRules(rest, response, errors \o one.errors)

\* str(e) of the exception float() raised
ExceptionText(exc) ==
    IF exc = "ValueError" THEN "could not convert string to float"
    ELSE "float() argument must be a string or a real number"

\* the rules are applied when the type validation raised nothing
RulesAfterType(typed, question, response) ==
    IF typed.exc # "" THEN typed
    ELSE ApplyRules(question.validation_rules, response, typed.errors)

\* a validate_response whose try block has no except clause
ValidationResultUncaught(done) ==
    [ok |-> done.exc = "" /\ Len(done.errors) = 0, errors |-> done.errors,
     exc |-> done.exc]

\* the return of validate_response, from its try block or its except clause,
\* which catches every Exception: none leaves the call
ValidationResult(done) ==
    IF done.exc # ""
    THEN [ok |-> FALSE,
          errors |-> done.errors \o <<"Validation error: " \o ExceptionText(done.exc)>>,
          exc |-> ""]
    ELSE [ok |-> Len(done.errors) = 0, errors |-> done.errors, exc |-> ""]

\* Question.validate_response: [ok, errors, exc]
validate_response(question, response) ==
    ValidationResult(RulesAfterType(TypeCheck(question, response), question, response))

(***************************************************************************)
(* Questionnaire: state                                                    *)
(***************************************************************************)
VARIABLES
    questions,      \* Questionnaire.questions: sequence of Question
    responses,      \* Questionnaire.responses: the dict in insertion order
    risk_score,     \* Questionnaire.risk_score, in ten-thousandths
    risk_level,     \* Questionnaire.risk_level
    risk_factors,   \* Questionnaire.risk_factors
    updated_at,     \* Questionnaire.updated_at
    status,         \* Questionnaire.status
    audit_trail,    \* Questionnaire.audit_trail
    clock,          \* what datetime.utcnow() returns; one tick per call
    next_id,        \* the uuid4() the next Question created will get
    result,         \* outcome of the last completed call
    succeeded,      \* number of calls that completed successfully
    calc,           \* frame of the calculate_overall_risk coroutine
    analyses,       \* what the analyses of the latest calculation returned
    llm,            \* frame of the LLMService.analyze_response coroutine
    service         \* LLMService._current_provider and the requests in flight

vars == <<questions, responses, risk_score, risk_level, risk_factors, updated_at,
          status, audit_trail, clock, next_id, result, succeeded, calc, analyses,
          llm, service>>

\* outcome of a call: returned value or raised exception
Returned(op, args, ok, errors) ==
    [op |-> op, args |-> args, ok |-> ok, raised |-> "", errors |-> errors,
     value |-> <<>>]

Raised(op, args, exc, message) ==
    [op |-> op, args |-> args, ok |-> FALSE, raised |-> exc, errors |-> <<message>>,
     value |-> <<>>]

\* no calculate_overall_risk is in flight
NoCalc == [pc |-> "idle", i |-> 0, accumulated_risk |-> 0, all_risk_factors |-> <<>>,
           sanitized |-> <<>>, used |-> 0]

\* no LLMService.analyze_response is in flight
NoLLM == [pc |-> "idle", attempt_number |-> 0, question |-> <<>>, response |-> <<>>,
          exc |-> "", calls |-> <<>>]

\* the provider settings.get_llm_config() names, and that of its fallback
PRIMARY_PROVIDER == "openai"

SECONDARY_PROVIDER == "azure"

\* a request of the service that is not in flight
NoTask == [pc |-> "idle", op |-> "", attempt_number |-> 0, original_provider |-> "",
           via |-> ""]

\* LLMService.__init__: the current provider is the configured one
NoService == [current_provider |-> PRIMARY_PROVIDER, started |-> 0,
              tasks |-> [t \in 1..MaxTasks |-> NoTask]]

\* Questionnaire.__init__ with a valid consent
Init ==
    /\ questions = <<>>
    /\ responses = <<>>
    /\ risk_score = 0
    /\ risk_level = "LOW"
    /\ risk_factors = <<>>
    /\ updated_at = 0
    /\ status = "in_progress"
    /\ audit_trail = <<>>
    /\ clock = 0
    /\ next_id = 1
    /\ result = Returned("__init__", <<>>, TRUE, <<>>)
    /\ succeeded = 0
    /\ calc = NoCalc
    /\ analyses = <<>>
    /\ llm = NoLLM
    /\ service = NoService

(***************************************************************************)
(* Questionnaire.add_question                                              *)
(***************************************************************************)
\* a capacity test that is off by one: it lets a 51st question in
AtCapacityExclusive(qs) == Len(qs) > MAX_QUESTIONS

AtCapacity(qs) == Len(qs) >= MAX_QUESTIONS

\* a duplicate test that overlooks the first question
HasLaterQuestion(qs, id) == \E i \in DOMAIN qs : i > 1 /\ qs[i].id = id

HasQuestion(qs, id) == \E i \in DOMAIN qs : qs[i].id = id

AddQuestionEntry(question, now) ==
    [action |-> "add_question", question_id |-> question.id, timestamp |-> now,
     metadata |-> [type |-> question.type, required |-> question.required]]

AddQuestion(question) ==
    /\ calc.pc = "idle"
    /\ clock' = clock + 1
    /\ next_id' = IF question.id = next_id THEN next_id + 1 ELSE next_id
    /\ IF AtCapacity(questions)
       THEN /\ result' = Raised("add_question", <<question.id>>, "ValueError",
                                "Maximum number of questions ("
                                \o ToString(MAX_QUESTIONS) \o ") exceeded")
            /\ UNCHANGED <<questions, updated_at, audit_trail, succeeded>>
       ELSE IF HasQuestion(questions, question.id)
       THEN /\ result' = Raised("add_question", <<question.id>>, "ValueError",
                                "Question with this ID already exists")
            /\ UNCHANGED <<questions, updated_at, audit_trail, succeeded>>
       ELSE /\ questions' = Append(questions, question)
            /\ updated_at' = clock'
            /\ audit_trail' = Append(audit_trail, AddQuestionEntry(question, clock'))
            /\ result' = Returned("add_question", <<question.id>>, TRUE, <<>>)
            /\ succeeded' = succeeded + 1
    /\ UNCHANGED <<responses, risk_score, risk_level, risk_factors, status, calc,
                   analyses, llm, service>>

(***************************************************************************)
(* Questionnaire.add_response                                              *)
(***************************************************************************)
\* next((q for q in questions if q.id == question_id), None): index or 0
FindQuestion(qs, id) ==
    IF HasQuestion(qs, id)
    THEN CHOOSE i \in DOMAIN qs : qs[i].id = id /\ \A j \in 1..(i - 1) : qs[j].id # id
    ELSE 0

HasResponse(rs, key) == \E i \in DOMAIN rs : rs[i].key = key

\* a list in place of the dict: every submission is kept
DictAppend(rs, key, entry) == Append(rs, entry)

\* responses[key] = entry: a known key keeps its place, a new key goes last
DictSet(rs, key, entry) ==
    IF HasResponse(rs, key)
    THEN [i \in DOMAIN rs |-> IF rs[i].key = key THEN entry ELSE rs[i]]
    ELSE Append(rs, entry)

\* an entry under a key that the calculation does not match with str(q.id)
ResponseEntryUnmatched(question_id, response, now) ==
    [key |-> 0 - question_id, value |-> Encrypt(response), timestamp |-> now]

ResponseEntry(question_id, response, now) ==
    [key |-> question_id, value |-> Encrypt(response), timestamp |-> now]

\* an audit entry under the name of another operation
MisnamedResponseEntry(question_id, now) ==
    [action |-> "add_question", question_id |-> question_id, timestamp |-> now,
     metadata |-> [validation_passed |-> TRUE]]

AddResponseEntry(question_id, now) ==
    [action |-> "add_response", question_id |-> question_id, timestamp |-> now,
     metadata |-> [validation_passed |-> TRUE]]

\* a rejection that still stamps updated_at
RejectResponseStamped(question_id, response, errors) ==
    /\ result' = Returned("add_response", <<question_id, response>>, FALSE, errors)
    /\ updated_at' = clock'
    /\ UNCHANGED <<responses, audit_trail, succeeded>>

\* return False, errors: nothing of the questionnaire is touched
RejectResponse(question_id, response, errors) ==
    /\ result' = Returned("add_response", <<question_id, response>>, FALSE, errors)
    /\ UNCHANGED <<responses, updated_at, audit_trail, succeeded>>

\* an add_response that stores the answer before it looks at the validation
StoreResponseUnchecked(question_id, response, checked) ==
    /\ responses' = DictSet(responses, question_id,
                            [key |-> question_id, value |-> Encrypt(response),
                             timestamp |-> clock'])
    /\ updated_at' = clock'
    /\ UNCHANGED <<audit_trail, succeeded>>
    /\ result' = [op |-> "add_response", args |-> <<question_id, response>>,
                  ok |-> checked.ok, raised |-> "", errors |-> checked.errors,
                  value |-> <<>>]

\* add_response once the question is found and the answer validated
StoreResponse(question_id, response, checked) ==
    IF ~checked.ok
    THEN RejectResponse(question_id, response, checked.errors)
    ELSE /\ responses' = DictSet(responses, question_id,
                                 ResponseEntry(question_id, response, clock'))
         /\ updated_at' = clock'
         /\ audit_trail' = Append(audit_trail, AddResponseEntry(question_id, clock'))
         /\ result' = Returned("add_response", <<question_id, response>>, TRUE, <<>>)
         /\ succeeded' = succeeded + 1

\* the body of add_response, whatever else is in flight
AddResponseBody(question_id, response) ==
    /\ clock' = clock + 1
    /\ IF ~HasQuestion(questions, question_id)
       THEN RejectResponse(question_id, response, <<"Question not found">>)
       ELSE StoreResponse(question_id, response,
                          validate_response(questions[FindQuestion(questions, question_id)],
                                            response))
    /\ UNCHANGED <<questions, risk_score, risk_level, risk_factors, status, next_id,
                   calc, analyses, llm, service>>

\* add_response called while no other call on the questionnaire is in flight
AddResponse(question_id, response) ==
    /\ calc.pc = "idle"
    /\ AddResponseBody(question_id, response)

(***************************************************************************)
(* Questionnaire.update_risk_assessment                                    *)
(***************************************************************************)
\* a range test without its upper end
ScoreNonNegative(score) == 0 <= score

ScoreInRange(score) == 0 <= score /\ score <= 100 * ONE

IsRiskLevel(level) == level \in Range(RISK_LEVELS)

\* an audit entry that reads the old level after the new one is assigned
UpdateRiskEntryAssigned(old_level, score, level, factors, now) ==
    [action |-> "update_risk_assessment", timestamp |-> now,
     metadata |-> [old_risk_level |-> level, new_risk_level |-> level,
                   risk_score |-> score, risk_factors_count |-> Len(factors)]]

UpdateRiskEntry(old_level, score, level, factors, now) ==
    [action |-> "update_risk_assessment", timestamp |-> now,
     metadata |-> [old_risk_level |-> old_level, new_risk_level |-> level,
                   risk_score |-> score, risk_factors_count |-> Len(factors)]]

\* an update_risk_assessment that does not look at the level
UpdateErrorScoreOnly(score, level) ==
    IF score < 0 \/ score > 100 * ONE THEN "Risk score must be between 0 and 100"
    ELSE ""

\* the body of update_risk_assessment: "" or the message of the ValueError
UpdateError(score, level) ==
    IF ~ScoreInRange(score) THEN "Risk score must be between 0 and 100"
    ELSE IF ~IsRiskLevel(level) THEN "Risk level must be one of ['LOW', 'MEDIUM', 'HIGH', 'CRITICAL']"
    ELSE ""

\* an update that puts its audit entry first
ApplyUpdateFirst(score, level, factors, now) ==
    /\ risk_score' = score
    /\ risk_level' = level
    /\ risk_factors' = factors
    /\ updated_at' = now
    /\ audit_trail' = <<[action |-> "update_risk_assessment", timestamp |-> now,
                         metadata |-> [old_risk_level |-> risk_level,
                                       new_risk_level |-> level,
                                       risk_score |-> score,
                                       risk_factors_count |-> Len(factors)]]>>
                      \o audit_trail

\* the assignments of update_risk_assessment, made at time now
ApplyUpdate(score, level, factors, now) ==
    /\ risk_score' = score
    /\ risk_level' = level
    /\ risk_factors' = factors
    /\ updated_at' = now
    /\ audit_trail' = Append(audit_trail,
                             UpdateRiskEntry(risk_level, score, level, factors, now))

\* the body of update_risk_assessment, whatever else is in flight
UpdateRiskAssessmentBody(score, level, factors) ==
    /\ clock' = clock + 1
    /\ IF UpdateError(score, level) # ""
       THEN /\ result' = Raised("update_risk_assessment", <<score, level, factors>>,
                                "ValueError", UpdateError(score, level))
            /\ UNCHANGED <<risk_score, risk_level, risk_factors, updated_at,
                           audit_trail, succeeded>>
       ELSE /\ ApplyUpdate(score, level, factors, clock')
            /\ result' = Returned("update_risk_assessment", <<score, level, factors>>,
                                  TRUE, <<>>)
            /\ succeeded' = succeeded + 1
    /\ UNCHANGED <<questions, responses, status, next_id, calc, analyses, llm, service>>

\* update_risk_assessment called while no other call is in flight
UpdateRiskAssessment(score, level, factors) ==
    /\ calc.pc = "idle"
    /\ UpdateRiskAssessmentBody(score, level, factors)

(***************************************************************************)
(* utils/validators.py: sanitize_text                                      *)
(***************************************************************************)
UpperCase == <<"A", "B", "C", "D", "E", "F", "G", "H", "I", "J", "K", "L", "M",
               "N", "O", "P", "Q", "R", "S", "T", "U", "V", "W", "X", "Y", "Z">>

LowerCase == <<"a", "b", "c", "d", "e", "f", "g", "h", "i", "j", "k", "l", "m",
               "n", "o", "p", "q", "r", "s", "t", "u", "v", "w", "x", "y", "z">>

\* the character re.IGNORECASE compares
ToLower(c) == IF \E k \in DOMAIN UpperCase : UpperCase[k] = c
              THEN LowerCase[CHOOSE k \in DOMAIN UpperCase : UpperCase[k] = c]
              ELSE c

\* \w
IsWordChar(c) == c = "_" \/ IsDigit(c) \/ ToLower(c) \in Range(LowerCase)

RECURSIVE StripTags(_)
\* re.sub(r'<[^>]*>', '', text)
StripTags(cs) ==
    IF cs = <<>> THEN <<>>
    ELSE IF cs[1] = "<" /\ \E j \in 2..Len(cs) : cs[j] = ">"
    THEN LET j == CHOOSE k \in 2..Len(cs) :
                     cs[k] = ">" /\ \A m \in 2..(k - 1) : cs[m] # ">"
         IN  StripTags(SubSeq(cs, j + 1, Len(cs)))
    ELSE <<cs[1]>> \o StripTags(Tail(cs))

\* an escape that rewrites no character
EscapeNothing(c) == <<c>>

EscapeChar(c) ==
    CASE c = "&"  -> <<"&", "a", "m", "p", ";">>
      [] c = "<"  -> <<"&", "l", "t", ";">>
      [] c = ">"  -> <<"&", "g", "t", ";">>
      [] c = "\"" -> <<"&", "q", "u", "o", "t", ";">>
      [] c = "'"  -> <<"&", "#", "x", "2", "7", ";">>
      [] OTHER    -> <<c>>

RECURSIVE HtmlEscape(_)
\* html.escape(text)
HtmlEscape(cs) == IF cs = <<>> THEN <<>> ELSE EscapeChar(cs[1]) \o HtmlEscape(Tail(cs))

JAVASCRIPT == <<"j", "a", "v", "a", "s", "c", "r", "i", "p", "t", ":">>

StartsWithNoCase(cs, pat) ==
    Len(cs) >= Len(pat) /\ \A k \in DOMAIN pat : ToLower(cs[k]) = pat[k]

RECURSIVE RemoveJavascript(_)
\* re.sub(r'javascript:', '', text, flags=re.IGNORECASE)
RemoveJavascript(cs) ==
    IF cs = <<>> THEN <<>>
    ELSE IF StartsWithNoCase(cs, JAVASCRIPT)
    THEN RemoveJavascript(SubSeq(cs, Len(JAVASCRIPT) + 1, Len(cs)))
    ELSE <<cs[1]>> \o RemoveJavascript(Tail(cs))

IsSpace(c) == c \in Whitespace

RECURSIVE WordRun(_, _)
\* length of the longest run of \w characters starting at cs[from]
WordRun(cs, from) ==
    IF from <= Len(cs) /\ IsWordChar(cs[from]) THEN 1 + WordRun(cs, from + 1) ELSE 0

RECURSIVE SpaceRun(_, _)
\* length of the longest run of \s characters starting at cs[from]
SpaceRun(cs, from) ==
    IF from <= Len(cs) /\ IsSpace(cs[from]) THEN 1 + SpaceRun(cs, from + 1) ELSE 0

\* length of the match of on\w+\s*= at the head of cs, 0 when there is none
OnHandlerMatch(cs) ==
    IF ~StartsWithNoCase(cs, <<"o", "n">>) THEN 0
    ELSE LET w  == WordRun(cs, 3)
             sp == SpaceRun(cs, 3 + w)
             eq == 3 + w + sp
         IN  IF w >= 1 /\ eq <= Len(cs) /\ cs[eq] = "=" THEN eq ELSE 0

RECURSIVE RemoveOnHandlers(_)
\* re.sub(r'on\w+\s*=', '', text, flags=re.IGNORECASE)
RemoveOnHandlers(cs) ==
    IF cs = <<>> THEN <<>>
    ELSE IF OnHandlerMatch(cs) > 0
    THEN RemoveOnHandlers(SubSeq(cs, OnHandlerMatch(cs) + 1, Len(cs)))
    ELSE <<cs[1]>> \o RemoveOnHandlers(Tail(cs))

RECURSIVE CollapseSpaces(_)
\* ' '.join(text.split()) of a text without leading whitespace
CollapseSpaces(cs) ==
    IF cs = <<>> THEN <<>>
    ELSE IF IsSpace(cs[1])
    THEN (IF StripLeft(cs) = <<>> THEN <<>> ELSE <<" ">>) \o CollapseSpaces(StripLeft(cs))
    ELSE <<cs[1]>> \o CollapseSpaces(Tail(cs))

NormalizeWhitespace(cs) == CollapseSpaces(StripLeft(cs))

\* sanitize_text on a str
SanitizeChars(cs) ==
    IF cs = <<>> THEN <<>>
    ELSE NormalizeWhitespace(RemoveOnHandlers(RemoveJavascript(HtmlEscape(StripTags(cs)))))

\* not value
Falsy(v) ==
    \/ v.ty = "none"
    \/ v.ty = "str" /\ v.s = <<>>
    \/ v.ty \in {"int", "float"} /\ v.n = 0
    \/ v.ty = "bool" /\ ~v.b
    \/ v.ty = "list" /\ v.l = <<>>

\* sanitize_text(value): [exc, s]. re.sub raises TypeError on what is no str.
\* A Fernet token has no tag, entity or javascript: text; the rare token
\* whose tail spells on\w+= is not modelled, the token is returned as it is.
sanitize_text(v) ==
    IF Falsy(v) THEN [exc |-> "", s |-> <<>>]
    ELSE IF v.ty # "str" THEN [exc |-> "TypeError", s |-> <<>>]
    ELSE IF v.enc THEN [exc |-> "", s |-> v.s]
    ELSE [exc |-> "", s |-> SanitizeChars(v.s)]

(***************************************************************************)
(* services/risk_assessment.py                                             *)
(***************************************************************************)
\* weights in hundredths
RISK_WEIGHT_FACTORS ==
    [age |-> 20, medical_history |-> 30, lifestyle |-> 15,
     family_history |-> 20, current_conditions |-> 15]

DEFAULT_WEIGHT == 10

\* a table whose HIGH ends at 0.75
LoweredThresholds == [LOW |-> 30, MEDIUM |-> 60, HIGH |-> 75, CRITICAL |-> 100]

\* thresholds in hundredths
RISK_THRESHOLDS == [LOW |-> 30, MEDIUM |-> 60, HIGH |-> 80, CRITICAL |-> 100]

RECURSIVE SortedByThreshold(_)
\* the keys of sorted(RISK_THRESHOLDS.items(), key=lambda x: x[1])
SortedByThreshold(keys) ==
    IF keys = {} THEN <<>>
    ELSE LET k == CHOOSE k \in keys :
                     \A o \in keys : RISK_THRESHOLDS[k] <= RISK_THRESHOLDS[o]
         IN  <<k>> \o SortedByThreshold(keys \ {k})

\* a classification by the first threshold the score is below
GetRiskLevelBelow(score) ==
    IF ~(0 <= score /\ score <= ONE) THEN [exc |-> "ValueError", level |-> ""]
    ELSE IF score < 100 * RISK_THRESHOLDS.LOW THEN [exc |-> "", level |-> "LOW"]
    ELSE IF score < 100 * RISK_THRESHOLDS.MEDIUM THEN [exc |-> "", level |-> "MEDIUM"]
    ELSE IF score < 100 * RISK_THRESHOLDS.HIGH THEN [exc |-> "", level |-> "HIGH"]
    ELSE [exc |-> "", level |-> "CRITICAL"]

\* get_risk_level of a score in ten-thousandths: [exc, level]
get_risk_level(score) ==
    LET levels == SortedByThreshold(DOMAIN RISK_THRESHOLDS)
        hits   == {k \in DOMAIN levels : score <= 100 * RISK_THRESHOLDS[levels[k]]}
    IN  IF ~(0 <= score /\ score <= ONE)
        THEN [exc |-> "ValueError", level |-> ""]
        ELSE IF hits = {} THEN [exc |-> "", level |-> "CRITICAL"]
        ELSE [exc |-> "", level |-> levels[CHOOSE k \in hits : \A o \in hits : k <= o]]

\* isinstance(factor, dict): what is no dict is a Python value
IsDict(factor) == "ty" \notin DOMAIN factor

REQUIRED_FIELDS == {"type", "description", "severity", "confidence"}

\* the list of sanitized recommendations, from its head and its tail
ConsSanitized(head, rest) ==
    IF head.exc # "" THEN [exc |-> head.exc, l |-> <<>>]
    ELSE IF rest.exc # "" THEN rest
    ELSE [exc |-> "", l |-> <<PyStr(head.s)>> \o rest.l]

RECURSIVE SanitizeAll(_)
\* [sanitize_text(rec) for rec in recommendations]: [exc, l]
SanitizeAll(recs) ==
    IF recs = <<>> THEN [exc |-> "", l |-> <<>>]
    ELSE ConsSanitized(sanitize_text(recs[1]), SanitizeAll(Tail(recs)))

\* the exception that leaves the construction of sanitized_factor, if any
FirstException(excs) ==
    IF \A k \in DOMAIN excs : excs[k] = "" THEN ""
    ELSE excs[CHOOSE k \in DOMAIN excs : excs[k] # "" /\ \A m \in 1..(k - 1) : excs[m] = ""]

BuildFactor(factor, type, desc, sev, conf, recs) ==
    [exc |-> FirstException(<<type.exc, desc.exc, sev.exc, conf.exc, recs.exc>>),
     factor |-> [type |-> PyStr(type.s), description |-> PyStr(desc.s),
                 severity |-> PyFloat(sev.n), confidence |-> PyFloat(conf.n),
                 recommendations |-> recs.l,
                 metadata |-> [source |-> DictGet(factor, "source", "analysis"),
                               validation_timestamp |-> DictGet(factor, "timestamp", "None"),
                               lgpd_compliant |-> TRUE]]]

\* the sanitized_factor dict of _validate_risk_factors: [exc, factor]
SanitizedFactor(factor) ==
    BuildFactor(factor, sanitize_text(factor.type), sanitize_text(factor.description),
                Float(factor.severity), Float(factor.confidence),
                SanitizeAll(DictGet(factor, "recommendations", <<>>)))

\* a range check with no upper end
AtLeastZero(v) == 0 <= v.n

InUnitRange(v) == 0 <= v.n /\ v.n <= 100

RECURSIVE ValidateFrom(_, _)
RECURSIVE KeepOrDrop(_, _, _)
\* the loop of _validate_risk_factors from the factors validated so far
ValidateFrom(raw_factors, validated) ==
    IF raw_factors = <<>> THEN [exc |-> "", factors |-> validated]
    ELSE IF ~IsDict(raw_factors[1]) \/ ~(REQUIRED_FIELDS \subseteq DOMAIN raw_factors[1])
    THEN ValidateFrom(Tail(raw_factors), validated)
    ELSE KeepOrDrop(SanitizedFactor(raw_factors[1]), Tail(raw_factors), validated)

\* the numeric checks on a sanitized factor, and the rest of the loop
KeepOrDrop(clean, rest, validated) ==
    IF clean.exc # "" THEN [exc |-> clean.exc, factors |-> <<>>]
    ELSE IF ~InUnitRange(clean.factor.severity) \/ ~InUnitRange(clean.factor.confidence)
    THEN ValidateFrom(rest, validated)
    ELSE ValidateFrom(rest, Append(validated, clean.factor))

\* RiskAssessmentService._validate_risk_factors: [exc, factors]
validate_risk_factors(raw_factors) == ValidateFrom(raw_factors, <<>>)

RECURSIVE QuoteAll(_)
QuoteAll(msgs) ==
    IF msgs = <<>> THEN ""
    ELSE "'" \o msgs[1] \o "'" \o (IF Len(msgs) = 1 THEN "" ELSE ", " \o QuoteAll(Tail(msgs)))

\* f"Invalid response: {errors}"
InvalidResponse(errors) == "Invalid response: [" \o QuoteAll(errors) \o "]"

\* str(response) as a Python value
StrValue(v) == IF v.ty = "str" THEN v ELSE PyStr(Str(v))

\* sanitize_text(str(response)) as a Python value
SanitizedValue(v) ==
    IF StrValue(v).enc THEN StrValue(v) ELSE PyStr(sanitize_text(StrValue(v)).s)

\* lines 39-43: raise on a failed validation, else sanitize
RaiseOrSanitize(checked, response) ==
    IF ~checked.ok
    THEN [exc |-> "ValueError", message |-> InvalidResponse(checked.errors),
          sanitized |-> <<>>]
    ELSE [exc |-> "", message |-> "", sanitized |-> SanitizedValue(response)]

\* analyze_response up to the await of the analyzer: [exc, message, sanitized]
AnalyzeBeforeAwait(question, response) ==
    RaiseOrSanitize(validate_response(question, response), response)

\* an outcome of the analyzer: a reply dict, or the error after the last attempt
Reply(dict) == [exc |-> "", result |-> dict]

AnalyzerFault == [exc |-> "RetryError", result |-> [risk_factors |-> <<>>]]

\* LLMService.analyze_response as its caller sees it: what the analyzer
\* answers, unless its own validation of the sanitized answer fails, which
\* ends it in an error before any provider is asked
LLMOutcome(question, sanitized, outcome) ==
    IF ~validate_response(question, sanitized).ok THEN AnalyzerFault ELSE outcome

\* the result dict of analyze_response
AnalysisResult(validated, analysis_result) ==
    [exc |-> validated.exc,
     risk_factors |-> validated.factors,
     risk_weight |-> DictGet(analysis_result, "risk_score", 0)]

\* analyze_response from the return of the analyzer: [exc, risk_factors, risk_weight]
AnalyzeAfterAwait(analysis_result) ==
    AnalysisResult(validate_risk_factors(DictGet(analysis_result, "risk_factors", <<>>)),
                   analysis_result)

(***************************************************************************)
(* RiskAssessmentService.calculate_overall_risk, one action per stretch    *)
(* of the coroutine between two awaits                                     *)
(***************************************************************************)
\* used is the size the iterator of responses.items() holds the dict to: the
\* size at the start of the loop, which every later pass finds unchanged
Frame(pc, i, acc, facs, sanitized) ==
    [pc |-> pc, i |-> i, accumulated_risk |-> acc, all_risk_factors |-> facs,
     sanitized |-> sanitized, used |-> Len(responses)]

\* the calculation ends in an exception: nothing of the questionnaire changes
CalcRaise(exc, message) ==
    /\ calc' = NoCalc
    /\ result' = Raised("calculate_overall_risk", <<>>, exc, message)
    /\ UNCHANGED <<risk_score, risk_level, risk_factors, updated_at, audit_trail,
                   succeeded>>

\* min(accumulated_risk, 1.0)
FinalScore(acc) == IF acc <= ONE THEN acc ELSE ONE

\* an update that stores the score as the fraction it is returned as
CalcCommitFraction(final, level, valid, now) ==
    IF level.exc # "" THEN CalcRaise(level.exc, "Risk score must be between 0 and 1")
    ELSE IF valid.exc # "" THEN CalcRaise(valid.exc, "risk factor")
    ELSE /\ ApplyUpdate(final, level.level, valid.factors, now)
         /\ calc' = NoCalc
         /\ result' = [Returned("calculate_overall_risk", <<>>, TRUE, <<>>)
                          EXCEPT !.value = <<final, level.level, valid.factors>>]
         /\ succeeded' = succeeded + 1

\* lines 128-145: update the questionnaire and return
CalcCommit(final, level, valid, now) ==
    IF level.exc # "" THEN CalcRaise(level.exc, "Risk score must be between 0 and 1")
    ELSE IF valid.exc # "" THEN CalcRaise(valid.exc, "risk factor")
    ELSE IF UpdateError(final * PERCENT, level.level) # ""
    THEN CalcRaise("ValueError", UpdateError(final * PERCENT, level.level))
    ELSE /\ ApplyUpdate(final * PERCENT, level.level, valid.factors, now)
         /\ calc' = NoCalc
         /\ result' = [Returned("calculate_overall_risk", <<>>, TRUE, <<>>)
                          EXCEPT !.value = <<final, level.level, valid.factors>>]
         /\ succeeded' = succeeded + 1

\* lines 119-126: the loop is over
CalcFinish(acc, facs, now) ==
    CalcCommit(FinalScore(acc), get_risk_level(FinalScore(acc)),
               validate_risk_factors(facs), now)

RECURSIVE NextAnswered(_)
\* the first index from i on of a response whose question exists, or 0
NextAnswered(i) ==
    IF i > Len(responses) THEN 0
    ELSE IF FindQuestion(questions, responses[i].key) = 0 THEN NextAnswered(i + 1)
    ELSE i

\* the question of the j-th response
QuestionOf(j) == questions[FindQuestion(questions, responses[j].key)]

\* a loop that stores the accumulated risk at each await
CalcAnalyzeStoring(j, before, acc, facs) ==
    IF before.exc # "" THEN CalcRaise(before.exc, before.message)
    ELSE /\ calc' = Frame("await", j, acc, facs, before.sanitized)
         /\ risk_score' = acc * PERCENT
         /\ UNCHANGED <<risk_level, risk_factors, updated_at, audit_trail,
                        succeeded, result>>

\* analyze_response of the j-th response suspends at the analyzer or raises
CalcAnalyze(j, before, acc, facs) ==
    IF before.exc # "" THEN CalcRaise(before.exc, before.message)
    ELSE /\ calc' = Frame("await", j, acc, facs, before.sanitized)
         /\ UNCHANGED <<risk_score, risk_level, risk_factors, updated_at,
                        audit_trail, succeeded, result>>

\* the loop at its next pass j (0: there is none)
CalcPass(j, acc, facs, now) ==
    IF j = 0 THEN CalcFinish(acc, facs, now)
    ELSE CalcAnalyze(j, AnalyzeBeforeAwait(QuestionOf(j), responses[j].value), acc, facs)

\* the loop from its i-th pass up to the next await, the next raise or its end
CalcRun(i, acc, facs, now) == CalcPass(NextAnswered(i), acc, facs, now)

\* a calculation that does not test for an empty responses dict
CalcBeginUnchecked ==
    /\ calc.pc = "idle"
    /\ clock' = clock + 1
    /\ CalcRun(1, 0, <<>>, clock')
    /\ analyses' = <<>>
    /\ UNCHANGED <<llm, service>>
    /\ UNCHANGED <<questions, responses, status, next_id>>

\* the call, up to the first await
CalcBegin ==
    /\ calc.pc = "idle"
    /\ clock' = clock + 1
    /\ IF responses = <<>>
       THEN CalcRaise("ValueError", "No responses found in questionnaire")
       ELSE CalcRun(1, 0, <<>>, clock')
    /\ analyses' = <<>>
    /\ UNCHANGED <<llm, service>>
    /\ UNCHANGED <<questions, responses, status, next_id>>

\* a lookup that gives a question without factor_type the weight of an unknown
\* factor_type
WeightOfKeyed(question) ==
    IF "factor_type" \in DOMAIN question.lgpd_metadata
    THEN DictGet(RISK_WEIGHT_FACTORS, question.lgpd_metadata.factor_type, DEFAULT_WEIGHT)
    ELSE DEFAULT_WEIGHT

\* question.lgpd_metadata.get('factor_type', 'medical_history'), then the weight
WeightOf(question) ==
    DictGet(RISK_WEIGHT_FACTORS,
            DictGet(question.lgpd_metadata, "factor_type", "medical_history"),
            DEFAULT_WEIGHT)

\* a loop whose iterator, in place of raising, visits the current entry
\* again when the dict has grown
CalcAccumulateRevisiting(question, answer, analysis, now) ==
    IF answer.exc # "" THEN CalcRaise(answer.exc, "analysis failed")
    ELSE IF analysis.exc # "" THEN CalcRaise(analysis.exc, "risk factor")
    ELSE CalcRun(IF Len(responses) # calc.used THEN calc.i ELSE calc.i + 1,
                 calc.accumulated_risk + analysis.risk_weight * WeightOf(question),
                 calc.all_risk_factors \o analysis.risk_factors,
                 now)

\* lines 106-117 after the await: accumulate, then go on with the loop; the
\* iterator raises when the dict has another size than at the start
CalcAccumulate(question, answer, analysis, now) ==
    IF answer.exc # "" THEN CalcRaise(answer.exc, "analysis failed")
    ELSE IF analysis.exc # "" THEN CalcRaise(analysis.exc, "risk factor")
    ELSE IF Len(responses) # calc.used
    THEN CalcRaise("RuntimeError", "dictionary changed size during iteration")
    ELSE CalcRun(calc.i + 1,
                 calc.accumulated_risk + analysis.risk_weight * WeightOf(question),
                 calc.all_risk_factors \o analysis.risk_factors,
                 now)

CalcResumeWith(question, answer, now) ==
    CalcAccumulate(question, answer, AnalyzeAfterAwait(answer.result), now)

\* what an analyze_response call came to: the exception it raised, if any,
\* and the risk_weight of its result; sanitized is the answer it was given
Analysed(key, answer, analysis) ==
    [key |-> key,
     exc |-> IF answer.exc # "" THEN answer.exc ELSE analysis.exc,
     risk_weight |-> analysis.risk_weight,
     sanitized |-> calc.sanitized]

AnalysedWith(key, answer) == Analysed(key, answer, AnalyzeAfterAwait(answer.result))

\* the analyzer answers the pending analysis: up to the next await
CalcResume(outcome) ==
    /\ calc.pc = "await"
    /\ clock' = clock + 1
    /\ CalcResumeWith(QuestionOf(calc.i),
                      LLMOutcome(QuestionOf(calc.i), calc.sanitized, outcome), clock')
    /\ analyses' = Append(analyses,
                          AnalysedWith(responses[calc.i].key,
                                       LLMOutcome(QuestionOf(calc.i), calc.sanitized,
                                                  outcome)))
    /\ UNCHANGED <<questions, responses, status, next_id, llm, service>>

(***************************************************************************)
(* Inputs of the calls                                                     *)
(***************************************************************************)
Sim == <<"S", "i", "m">>

Nao == <<"N", "a", "o">>

\* the questions a caller creates: Question(text, type, options, rules, ...)
CreatedQuestions(id) ==
    {NewQuestion(id, "text", <<>>, <<>>, DefaultLgpdMetadata),
     NewQuestion(id, "choice", <<Sim, Nao>>, <<>>, DefaultLgpdMetadata)}

\* add_question is called with a question just created or with one already added
QuestionInputs ==
    (IF next_id <= MaxCreated THEN CreatedQuestions(next_id) ELSE {})
    \cup Range(questions)

\* ids passed to add_response: those of created questions, and 0 of none
QuestionIdInputs == 0..MaxCreated

ResponseInputs == {PyStr(Sim), PyStr(Nao), PyNone}

WellFormedFactor ==
    [type |-> PyStr(<<"c", "h", "r", "o", "n", "i", "c">>),
     description |-> PyStr(<<"T", "y", "p", "e", " ", "2">>),
     severity |-> PyFloat(70), confidence |-> PyFloat(90)]

NoConfidenceFactor ==
    [type |-> PyStr(<<"t", "e", "s", "t">>), description |-> PyStr(<<"x">>),
     severity |-> PyFloat(70)]

SevereFactor == [WellFormedFactor EXCEPT !.severity = PyFloat(150)]

\* the normalized form of WellFormedFactor, as update_risk_assessment gets it
NormalizedFactor == validate_risk_factors(<<WellFormedFactor>>).factors[1]

ScoreInputs == {0 - ONE, 0, 100 * ONE, 100 * ONE + 1}

LevelInputs == {"HIGH", "SEVERE"}

FactorsInputs == {<<>>, <<NormalizedFactor>>}

AnalyzerOutcomes ==
    {AnalyzerFault,
     Reply([risk_score |-> 20, risk_factors |-> <<WellFormedFactor>>]),
     Reply([risk_score |-> 450,
            risk_factors |-> <<NoConfidenceFactor, WellFormedFactor, SevereFactor>>]),
     Reply([risk_score |-> 0 - 50, risk_factors |-> <<>>])}

(***************************************************************************)
(* The questionnaire under a host that serializes the calls                *)
(***************************************************************************)
Next ==
    \/ \E question \in QuestionInputs : clock < MaxCalls /\ AddQuestion(question)
    \/ \E id \in QuestionIdInputs, response \in ResponseInputs :
           clock < MaxCalls /\ AddResponse(id, response)
    \/ \E score \in ScoreInputs, level \in LevelInputs, factors \in FactorsInputs :
           clock < MaxCalls /\ UpdateRiskAssessment(score, level, factors)
    \/ clock < MaxCalls /\ CalcBegin
    \/ \E outcome \in AnalyzerOutcomes : CalcResume(outcome)

Spec == Init /\ [][Next]_vars

(***************************************************************************)
(* The same questionnaire filled to its capacity: the caller adds text     *)
(* questions one after the other, and makes a few other calls while the    *)
(* questionnaire is nearly empty or full                                   *)
(***************************************************************************)
CapFresh == NewQuestion(next_id, "text", <<>>, <<>>, DefaultLgpdMetadata)

\* calls made so far other than the add_question calls that succeeded
CapExtra == clock - Len(questions)

CapMayVary ==
    /\ CapExtra < CapExtraCalls
    /\ Len(questions) <= CapVaried \/ Len(questions) >= MAX_QUESTIONS

CapScoreInputs == {0 - ONE, 100 * ONE}

NextCap ==
    \/ Len(questions) < MAX_QUESTIONS /\ AddQuestion(CapFresh)
    \/ \E question \in {CapFresh} \cup {questions[j] : j \in DOMAIN questions \cap {1}} :
           CapMayVary /\ AddQuestion(question)
    \/ \E id \in 0..1, response \in {PyStr(Sim), PyStr(Nao)} :
           CapMayVary /\ AddResponse(id, response)
    \/ \E score \in CapScoreInputs :
           CapMayVary /\ UpdateRiskAssessment(score, "HIGH", <<>>)
    \/ CapMayVary /\ CalcBegin
    \/ \E outcome \in AnalyzerOutcomes : CalcResume(outcome)

SpecCap == Init /\ [][NextCap]_vars

(***************************************************************************)
(* RiskAssessmentService.analyze_response called on its own, as the        *)
(* submit_response endpoint and the tests call it; calc.i is the index of  *)
(* the question                                                            *)
(***************************************************************************)
\* an analyze_response that calls the analyzer whatever the validation says
AnalyzeStartUnchecked(i, response, before) ==
    /\ calc' = Frame("analyze", i, 0, <<>>, SanitizedValue(response))
    /\ UNCHANGED result

\* analyze_response up to the await of the analyzer
AnalyzeStart(i, response, before) ==
    IF before.exc # ""
    THEN /\ result' = Raised("analyze_response", <<questions[i].id, response>>,
                             before.exc, before.message)
         /\ calc' = NoCalc
    ELSE /\ calc' = Frame("analyze", i, 0, <<>>, before.sanitized)
         /\ UNCHANGED result

AnalyzeBegin(i, response) ==
    /\ calc.pc = "idle"
    /\ clock' = clock + 1
    /\ AnalyzeStart(i, response, AnalyzeBeforeAwait(questions[i], response))
    /\ UNCHANGED <<questions, responses, risk_score, risk_level, risk_factors,
                   updated_at, status, audit_trail, next_id, succeeded, analyses, llm, service>>

\* analyze_response from the return of the analyzer to its own return
AnalyzeReturn(i, answer, analysis) ==
    IF answer.exc # ""
    THEN result' = Raised("analyze_response", <<questions[i].id, calc.sanitized>>,
                          answer.exc, "analysis failed")
    ELSE IF analysis.exc # ""
    THEN result' = Raised("analyze_response", <<questions[i].id, calc.sanitized>>,
                          analysis.exc, "risk factor")
    ELSE result' = [Returned("analyze_response", <<questions[i].id, calc.sanitized>>,
                             TRUE, <<>>)
                       EXCEPT !.value = <<analysis.risk_weight, analysis.risk_factors>>]

AnalyzeReturnWith(i, answer) ==
    AnalyzeReturn(i, answer, AnalyzeAfterAwait(answer.result))

AnalyzeResume(outcome) ==
    /\ calc.pc = "analyze"
    /\ clock' = clock + 1
    /\ AnalyzeReturnWith(calc.i, LLMOutcome(questions[calc.i], calc.sanitized, outcome))
    /\ calc' = NoCalc
    /\ UNCHANGED <<questions, responses, risk_score, risk_level, risk_factors,
                   updated_at, status, audit_trail, next_id, succeeded, analyses, llm, service>>

\* the caller cancels the pending call: CancelledError is raised at the await
\* and leaves the coroutine, which has no handler for it
Cancel ==
    /\ calc.pc # "idle"
    /\ clock' = clock + 1
    /\ calc' = NoCalc
    /\ result' = Raised(IF calc.pc = "await" THEN "calculate_overall_risk"
                        ELSE "analyze_response",
                        <<>>, "CancelledError", "")
    /\ UNCHANGED <<questions, responses, risk_score, risk_level, risk_factors,
                   updated_at, status, audit_trail, next_id, succeeded, analyses, llm, service>>

(***************************************************************************)
(* The risk assessment of a questionnaire: questions of every factor_type, *)
(* answers, analyses and calculations; update_risk_assessment is called by *)
(* the calculation only                                                    *)
(***************************************************************************)
FactorType(name) == [factor_type |-> name]

\* the first question is of any factor_type or a choice; the later ones are
\* of the factor_type age
RiskQuestions(id) ==
    IF id = 1
    THEN {NewQuestion(id, "text", <<>>, <<>>, m) :
              m \in {DefaultLgpdMetadata, FactorType("age"),
                     FactorType("medical_history"), FactorType("lifestyle"),
                     FactorType("family_history"), FactorType("current_conditions"),
                     FactorType("genetic")}}
         \cup {NewQuestion(id, "choice", <<Sim, Nao>>, <<>>, DefaultLgpdMetadata)}
    ELSE {NewQuestion(id, "text", <<>>, <<>>, FactorType("age"))}

\* the analyzer reports a risk_score and one well-formed factor
Scored(score) == Reply([risk_score |-> score, risk_factors |-> <<WellFormedFactor>>])

RiskOutcomes ==
    {AnalyzerFault, Scored(20), Scored(50), Scored(70), Scored(90), Scored(450),
     Scored(0 - 50)}

NextRisk ==
    \/ \E question \in RiskQuestions(next_id) :
           /\ clock < MaxRiskCalls
           /\ next_id <= MaxRiskQuestions
           /\ AddQuestion(question)
    \/ \E id \in 1..MaxRiskQuestions :
           clock < MaxRiskCalls /\ AddResponse(id, PyStr(Sim))
    \/ clock < MaxRiskCalls /\ CalcBegin
    \/ \E outcome \in RiskOutcomes : CalcResume(outcome)
    \/ Cancel

SpecRisk == Init /\ [][NextRisk]_vars

(***************************************************************************)
(* Answers analysed one by one: questions are added and analyze_response   *)
(* is called on them with valid and invalid answers                        *)
(***************************************************************************)
Script == <<"<", "b", ">", "S", "i", "m", "<", "/", "b", ">">>

AnalyzeInputs == {PyStr(Sim), PyStr(Script), PyNone, PyList(<<Sim>>)}

AnalyzeOutcomes ==
    {AnalyzerFault, Scored(20),
     Reply([risk_score |-> 70,
            risk_factors |-> <<NoConfidenceFactor, WellFormedFactor, SevereFactor>>])}

NextAnalyze ==
    \/ \E question \in CreatedQuestions(next_id) :
           /\ clock < MaxAnalyzeCalls
           /\ next_id <= MaxCreated
           /\ AddQuestion(question)
    \/ \E i \in DOMAIN questions, response \in AnalyzeInputs :
           clock < MaxAnalyzeCalls /\ AnalyzeBegin(i, response)
    \/ \E outcome \in AnalyzeOutcomes : AnalyzeResume(outcome)
    \/ Cancel

SpecAnalyze == Init /\ [][NextAnalyze]_vars

(***************************************************************************)
(* The pure functions of RiskAssessmentService, applied to arguments drawn *)
(* from bounded sets; result holds the latest application                  *)
(***************************************************************************)
\* the (value, exception) a function call came to
Applied(op, arg, exc, value) ==
    [op |-> op, args |-> <<arg>>, ok |-> exc = "", raised |-> exc, errors |-> <<>>,
     value |-> value]

ClassifyWith(score, level) ==
    result' = Applied("get_risk_level", score, level.exc, <<level.level>>)

\* get_risk_level(score)
Classify(score) ==
    /\ ClassifyWith(score, get_risk_level(score))
    /\ UNCHANGED <<questions, responses, risk_score, risk_level, risk_factors,
                   updated_at, status, audit_trail, clock, next_id, succeeded, calc,
                   analyses, llm, service>>

NormalizeWith(raw_list, normalized) ==
    result' = Applied("_validate_risk_factors", raw_list, normalized.exc,
                      normalized.factors)

\* _validate_risk_factors(raw_list)
Normalize(raw_list) ==
    /\ NormalizeWith(raw_list, validate_risk_factors(raw_list))
    /\ UNCHANGED <<questions, responses, risk_score, risk_level, risk_factors,
                   updated_at, status, audit_trail, clock, next_id, succeeded, calc,
                   analyses, llm, service>>

\* scores in ten-thousandths: every hundredth from below 0.0 to above 1.0,
\* and the scores next to a threshold
ClassifyInputs ==
    {100 * h : h \in (0 - ScoreMargin)..(100 + ScoreMargin)}
    \cup {100 * RISK_THRESHOLDS[k] + d : k \in DOMAIN RISK_THRESHOLDS, d \in {0 - 1, 1}}
    \cup {0 - 1}

\* a factor that is a str, not a dict
NotAMapping == PyStr(<<"x">>)

\* markup in the text fields, severity and confidence at the ends of [0, 1]
TaggedFactor ==
    [type |-> PyStr(<<"<", "b", ">", "f", "l", "u", "<", "/", "b", ">">>),
     description |-> PyStr(<<"a", " ", " ", "b">>),
     severity |-> PyInt(0), confidence |-> PyStr(<<"1">>),
     recommendations |-> <<PyStr(<<" ", "r", "e", "s", "t">>)>>]

NegativeFactor == [WellFormedFactor EXCEPT !.confidence = PyFloat(0 - 10)]

\* float('high') raises ValueError
UncoercibleFactor ==
    [WellFormedFactor EXCEPT !.severity = PyStr(<<"h", "i", "g", "h">>)]

\* re.sub on an int raises TypeError
NonTextFactor == [WellFormedFactor EXCEPT !.type = PyInt(7)]

RawFactors ==
    {WellFormedFactor, NoConfidenceFactor, SevereFactor, NotAMapping, TaggedFactor,
     NegativeFactor, UncoercibleFactor, NonTextFactor}

RECURSIVE ListsOf(_, _)
\* the lists of at most n elements of a set
ListsOf(set, n) ==
    IF n = 0 THEN {<<>>}
    ELSE ListsOf(set, n - 1)
         \cup {Append(l, x) : l \in {m \in ListsOf(set, n - 1) : Len(m) = n - 1},
                              x \in set}

NextFunctions ==
    \/ \E score \in ClassifyInputs : Classify(score)
    \/ \E raw_list \in ListsOf(RawFactors, MaxFactors) : Normalize(raw_list)

SpecFunctions == Init /\ [][NextFunctions]_vars

(***************************************************************************)
(* sanitize_text and Question.validate_response applied once to an         *)
(* argument drawn at the start: result holds the call, then its outcome    *)
(***************************************************************************)
\* the call that is about to be made
Drawn(op, args) ==
    [op |-> "", args |-> <<op>> \o args, ok |-> TRUE, raised |-> "", errors |-> <<>>,
     value |-> <<>>]

IsDrawn(op) == result.op = "" /\ result.args[1] = op

SanitizeReturn(text, clean) ==
    result' = Applied("sanitize_text", text, clean.exc, <<PyStr(clean.s)>>)

\* sanitize_text(text)
SanitizeCall ==
    /\ IsDrawn("sanitize_text")
    /\ SanitizeReturn(result.args[2], sanitize_text(result.args[2]))
    /\ UNCHANGED <<questions, responses, risk_score, risk_level, risk_factors,
                   updated_at, status, audit_trail, clock, next_id, succeeded, calc,
                   analyses, llm, service>>

ValidateReturn(question, response, checked) ==
    result' = [op |-> "validate_response", args |-> <<question, response>>,
               ok |-> checked.ok, raised |-> checked.exc, errors |-> checked.errors,
               value |-> <<>>]

\* question.validate_response(response)
ValidateCall ==
    /\ IsDrawn("validate_response")
    /\ ValidateReturn(result.args[2], result.args[3],
                      validate_response(result.args[2], result.args[3]))
    /\ UNCHANGED <<questions, responses, risk_score, risk_level, risk_factors,
                   updated_at, status, audit_trail, clock, next_id, succeeded, calc,
                   analyses, llm, service>>

\* the characters html.escape rewrites, a letter and a space
SanitizeAlphabet == {"&", "<", ">", "\"", "'", "a", " "}

ScriptText ==
    <<"<", "s", "c", "r", "i", "p", "t", ">", "a", "l", "e", "r", "t", "(", "1", ")",
      "<", "/", "s", "c", "r", "i", "p", "t", ">">>

\* texts that the removals of sanitize_text could join into a tag
SplitScripts ==
    {<<"<", "s", "c", "r", "<", "b", ">", "i", "p", "t", ">">>,
     <<"<", "<", "a", ">", "s", "c", "r", "i", "p", "t">>,
     <<"<", "s", "c", "r", "j", "a", "v", "a", "s", "c", "r", "i", "p", "t", ":",
       "i", "p", "t", ">">>,
     <<"<", "s", "c", "r", "o", "n", "x", "=", "i", "p", "t">>,
     <<"J", "a", "v", "a", "S", "c", "r", "i", "p", "t", ":", "a">>,
     <<"o", "n", "c", "l", "i", "c", "k", " ", "=", "a">>,
     <<"<", "s", "c", "r", "i", "p", "t">>}

TextInputs == ListsOf(SanitizeAlphabet, MaxTextLen) \cup {ScriptText} \cup SplitScripts

Rule(name, value) == [rule |-> name, value |-> value]

\* validation_rules of numeric questions: none, every min_value <= max_value,
\* and value rules mixed with length rules in both orders
NumericRules ==
    {<<>>}
    \cup {<<Rule("min_value", a), Rule("max_value", b)>> :
              a \in 0..MaxValue, b \in 0..MaxValue}
    \cup {<<Rule("min_value", 0), Rule("max_length", 2)>>,
          <<Rule("max_length", 2), Rule("min_value", 1)>>,
          <<Rule("min_length", 2), Rule("min_value", 2)>>}

TextRules ==
    {<<>>, <<Rule("min_length", 2), Rule("max_length", 3)>>,
     <<Rule("min_length", 3), Rule("min_value", 2)>>}

ValidatedQuestions ==
    {NewQuestion(1, "numeric", <<>>, rules, DefaultLgpdMetadata) : rules \in NumericRules}
    \cup {NewQuestion(1, "text", <<>>, rules, DefaultLgpdMetadata) : rules \in TextRules}
    \cup {NewQuestion(1, type, <<Sim, Nao>>, <<>>, DefaultLgpdMetadata) :
              type \in {"boolean", "choice", "multiple_choice"}}

NotANumber == <<"a", "b", "c", "d">>

ValidatedResponses ==
    {PyInt(k) : k \in (0 - 1)..(MaxValue + 1)}
    \cup {PyFloat(150), PyStr(<<"1">>), PyStr(NotANumber), PyStr(Sim), PyNone,
          PyBool(TRUE), PyBool(FALSE), PyList(<<>>), PyList(<<Sim>>),
          PyList(<<Sim, NotANumber>>), PyList(<<Nao, Sim>>)}

InitValidators ==
    /\ questions = <<>>
    /\ responses = <<>>
    /\ risk_score = 0
    /\ risk_level = "LOW"
    /\ risk_factors = <<>>
    /\ updated_at = 0
    /\ status = "in_progress"
    /\ audit_trail = <<>>
    /\ clock = 0
    /\ next_id = 1
    /\ result \in {Drawn("sanitize_text", <<PyStr(text)>>) : text \in TextInputs}
                  \cup {Drawn("validate_response", <<question, response>>) :
                            question \in ValidatedQuestions,
                            response \in ValidatedResponses}
    /\ succeeded = 0
    /\ calc = NoCalc
    /\ analyses = <<>>
    /\ llm = NoLLM
    /\ service = NoService

NextValidators ==
    \/ SanitizeCall
    \/ ValidateCall

SpecValidators == InitValidators /\ [][NextValidators]_vars

(***************************************************************************)
(* Questionnaire.__init__ called with any consent mapping, and the first   *)
(* calls on the questionnaire it returns; status "" stands for no object   *)
(***************************************************************************)
\* a consent check that does not ask for sharing_policy
SomeConsentFields == {"purpose", "data_usage", "retention_period"}

required_consent_fields == {"purpose", "data_usage", "retention_period", "sharing_policy"}

\* Questionnaire(enrollment_id, lgpd_consent): the object, or the ValueError
\* that leaves __init__ and with it the object under construction
Construct(lgpd_consent) ==
    /\ status = ""
    /\ IF required_consent_fields \subseteq DOMAIN lgpd_consent
       THEN /\ questions' = <<>>
            /\ responses' = <<>>
            /\ risk_score' = 0
            /\ risk_level' = "LOW"
            /\ risk_factors' = <<>>
            /\ updated_at' = clock
            /\ status' = "in_progress"
            /\ audit_trail' = <<>>
            /\ result' = Returned("__init__", <<lgpd_consent>>, TRUE, <<>>)
       ELSE /\ result' = Raised("__init__", <<lgpd_consent>>, "ValueError",
                                "Invalid LGPD consent data")
            /\ UNCHANGED <<questions, responses, risk_score, risk_level, risk_factors,
                           updated_at, status, audit_trail>>
    /\ UNCHANGED <<clock, next_id, succeeded, calc, analyses, llm, service>>

\* mappings with any of the required keys and possibly another one
ConsentInputs ==
    {[k \in keys |-> "granted"] :
         keys \in SUBSET (required_consent_fields \cup {"channel"})}

\* no Questionnaire has been constructed
InitConstruct ==
    /\ questions = <<>>
    /\ responses = <<>>
    /\ risk_score = 0
    /\ risk_level = ""
    /\ risk_factors = <<>>
    /\ updated_at = 0
    /\ status = ""
    /\ audit_trail = <<>>
    /\ clock = 0
    /\ next_id = 1
    /\ result = Drawn("__init__", <<>>)
    /\ succeeded = 0
    /\ calc = NoCalc
    /\ analyses = <<>>
    /\ llm = NoLLM
    /\ service = NoService

NextConstruct ==
    \/ \E lgpd_consent \in ConsentInputs : Construct(lgpd_consent)
    \/ \E question \in QuestionInputs :
           status # "" /\ clock < MaxBuiltCalls /\ AddQuestion(question)
    \/ \E id \in QuestionIdInputs, response \in ResponseInputs :
           status # "" /\ clock < MaxBuiltCalls /\ AddResponse(id, response)

SpecConstruct == InitConstruct /\ [][NextConstruct]_vars

(***************************************************************************)
(* services/llm_service.py: LLMService.analyze_response under its          *)
(* @retry(stop_after_attempt(MAX_RETRIES), wait_exponential) decorator     *)
(***************************************************************************)
MAX_RETRIES == 5

\* the frame at a point of an attempt; calls lists the providers contacted
LLMFrame(pc, n, question, response, exc, calls) ==
    [pc |-> pc, attempt_number |-> n, question |-> question, response |-> response,
     exc |-> exc, calls |-> calls]

\* the frame after the request has ended
LLMDone(n, calls) == [NoLLM EXCEPT !.attempt_number = n, !.calls = calls]

LLMArgs(question, response) == <<question.id, response>>

\* tenacity without a stop condition: a wait follows every failure
LLMFailedUnstopped(n, question, response, exc, calls) ==
    /\ llm' = LLMFrame("wait", n, question, response, exc, calls)
    /\ UNCHANGED result

\* tenacity after an attempt raised: RetryError after the last attempt, else
\* the wait before the next one; it retries on every Exception
LLMFailed(n, question, response, exc, calls) ==
    IF n >= MAX_RETRIES
    THEN /\ llm' = LLMDone(n, calls)
         /\ result' = Raised("LLMService.analyze_response", LLMArgs(question, response),
                             "RetryError", exc)
    ELSE /\ llm' = LLMFrame("wait", n, question, response, exc, calls)
         /\ UNCHANGED result

\* lines 121-139: an attempt validates the response, then awaits the
\* current provider
LLMAttemptWith(n, question, response, checked, calls) ==
    IF ~checked.ok THEN LLMFailed(n, question, response, "ValueError", calls)
    ELSE /\ llm' = LLMFrame("primary", n, question, response, "",
                            Append(calls, "primary"))
         /\ UNCHANGED result

LLMAttempt(n, question, response, calls) ==
    LLMAttemptWith(n, question, response, validate_response(question, response), calls)

\* lines 147-152: _parse_analysis_response, ValueError when it yields nothing
LLMParsed(reply) ==
    IF reply = "content"
    THEN /\ llm' = LLMDone(llm.attempt_number, llm.calls)
         /\ result' = [Returned("LLMService.analyze_response",
                                LLMArgs(llm.question, llm.response), TRUE, <<>>)
                          EXCEPT !.value = <<reply>>]
    ELSE LLMFailed(llm.attempt_number, llm.question, llm.response, "ValueError",
                   llm.calls)

\* the other steps leave the questionnaire and the clock as they are
LLMOnly ==
    UNCHANGED <<questions, responses, risk_score, risk_level, risk_factors, updated_at,
                status, audit_trail, clock, next_id, succeeded, calc, analyses,
                service>>

\* LLMService.analyze_response(question, response, context) is called
LLMBegin(question, response) ==
    /\ llm.pc = "idle"
    /\ LLMAttempt(1, question, response, <<>>)
    /\ LLMOnly

\* lines 140-143: the primary provider answers or fails; on a failure the
\* same attempt awaits _fallback_llm_call
LLMPrimary(reply) ==
    /\ llm.pc = "primary"
    /\ IF reply = "error"
       THEN /\ llm' = [llm EXCEPT !.pc = "secondary",
                                  !.calls = Append(llm.calls, "secondary")]
            /\ UNCHANGED result
       ELSE LLMParsed(reply)
    /\ LLMOnly

\* lines 187-201: the secondary provider answers or fails
LLMSecondary(reply) ==
    /\ llm.pc = "secondary"
    /\ IF reply = "error"
       THEN LLMFailed(llm.attempt_number, llm.question, llm.response, "APIError",
                      llm.calls)
       ELSE LLMParsed(reply)
    /\ LLMOnly

\* the wait of wait_exponential is over: the next attempt
LLMRetry ==
    /\ llm.pc = "wait"
    /\ LLMAttempt(llm.attempt_number + 1, llm.question, llm.response, llm.calls)
    /\ LLMOnly

\* a provider returns a completion with content, one without, or raises
ProviderReplies == {"content", "", "error"}

\* text questions without rules and with a min_length, and a choice
LLMQuestions ==
    {NewQuestion(1, "text", <<>>, <<>>, DefaultLgpdMetadata),
     NewQuestion(2, "text", <<>>, <<Rule("min_length", 2)>>, DefaultLgpdMetadata),
     NewQuestion(3, "choice", <<Sim, Nao>>, <<>>, DefaultLgpdMetadata)}

\* sanitized answers, as RiskAssessmentService.analyze_response passes them
LLMResponses == {PyStr(Sim), PyStr(<<"a">>)}

NextLLM ==
    \/ \E question \in LLMQuestions, response \in LLMResponses :
           LLMBegin(question, response)
    \/ \E reply \in ProviderReplies : LLMPrimary(reply)
    \/ \E reply \in ProviderReplies : LLMSecondary(reply)
    \/ LLMRetry

SpecLLM == Init /\ [][NextLLM]_vars

\* a provider call ends within PROVIDER_TIMEOUT_SECONDS, by an answer or by
\* an exception, and a wait of wait_exponential ends
FairSpecLLM ==
    /\ SpecLLM
    /\ WF_vars(\E reply \in ProviderReplies : LLMPrimary(reply))
    /\ WF_vars(\E reply \in ProviderReplies : LLMSecondary(reply))
    /\ WF_vars(LLMRetry)

(***************************************************************************)
(* Questions whose risk_weight the caller has set: Question.__init__ sets  *)
(* it to 1.0 and the field is a plain attribute of the dataclass           *)
(***************************************************************************)
\* question.risk_weight = w
WithRiskWeight(question, w) == [question EXCEPT !.risk_weight = w]

\* questions of the factor_type age that differ in their risk_weight only
WeightedQuestions(id) ==
    {WithRiskWeight(NewQuestion(id, "text", <<>>, <<>>, FactorType("age")), w) :
         w \in 1..MaxRiskWeight}

WeightOutcomes == {Scored(20), Scored(50)}

NextWeights ==
    \/ \E question \in WeightedQuestions(next_id) :
           /\ clock < MaxWeightCalls
           /\ next_id <= MaxRiskQuestions
           /\ AddQuestion(question)
    \/ \E id \in 1..MaxRiskQuestions :
           clock < MaxWeightCalls /\ AddResponse(id, PyStr(Sim))
    \/ clock < MaxWeightCalls /\ CalcBegin
    \/ \E outcome \in WeightOutcomes : CalcResume(outcome)

SpecWeights == Init /\ [][NextWeights]_vars

(***************************************************************************)
(* The questionnaire under a host that does not serialize the calls: while *)
(* calculate_overall_risk is suspended at the analyzer, other tasks of the *)
(* event loop call add_response and update_risk_assessment. What another   *)
(* calculation in flight does to the questionnaire is the call of          *)
(* update_risk_assessment it ends with: its sums are local to it.          *)
(***************************************************************************)
\* add_response runs while the calculation awaits the analyzer
AddResponseDuring(question_id, response) ==
    /\ calc.pc = "await"
    /\ AddResponseBody(question_id, response)

\* update_risk_assessment runs while the calculation awaits the analyzer
UpdateRiskAssessmentDuring(score, level, factors) ==
    /\ calc.pc = "await"
    /\ UpdateRiskAssessmentBody(score, level, factors)

UnserializedQuestion == NewQuestion(next_id, "text", <<>>, <<>>, FactorType("age"))

UnserializedResponses == {PyStr(Sim), PyStr(Nao)}

UnserializedOutcomes == {AnalyzerFault, Scored(20), Scored(50)}

NextUnserialized ==
    \/ /\ clock < MaxUnserializedCalls
       /\ next_id <= MaxRiskQuestions
       /\ AddQuestion(UnserializedQuestion)
    \/ \E id \in 1..MaxRiskQuestions, response \in UnserializedResponses :
           clock < MaxUnserializedCalls /\ AddResponse(id, response)
    \/ \E id \in 1..MaxRiskQuestions, response \in UnserializedResponses :
           clock < MaxUnserializedCalls /\ AddResponseDuring(id, response)
    \/ clock < MaxUnserializedCalls /\ UpdateRiskAssessmentDuring(100 * ONE, "HIGH", <<>>)
    \/ clock < MaxUnserializedCalls /\ CalcBegin
    \/ \E outcome \in UnserializedOutcomes : CalcResume(outcome)

SpecUnserialized == Init /\ [][NextUnserialized]_vars

(***************************************************************************)
(* Answers of every kind of question analysed one by one: the answer that  *)
(* RiskAssessmentService.analyze_response has validated goes, sanitized,   *)
(* to LLMService.analyze_response, which validates what it is given        *)
(***************************************************************************)
RevalidatedQuestions(id) ==
    {NewQuestion(id, type, IF type \in {"choice", "multiple_choice"} THEN <<Sim, Nao>>
                           ELSE <<>>,
                 <<>>, DefaultLgpdMetadata) : type \in Range(QUESTION_TYPES)}

RevalidatedResponses ==
    {PyStr(Sim), PyInt(1), PyBool(TRUE), PyList(<<Sim>>), PyList(<<>>), PyNone}

NextRevalidate ==
    \/ \E question \in RevalidatedQuestions(next_id) :
           /\ clock < MaxAnalyzeCalls
           /\ next_id <= MaxCreated
           /\ AddQuestion(question)
    \/ \E i \in DOMAIN questions, response \in RevalidatedResponses :
           clock < MaxAnalyzeCalls /\ AnalyzeBegin(i, response)
    \/ \E outcome \in AnalyzeOutcomes : AnalyzeResume(outcome)

SpecRevalidate == Init /\ [][NextRevalidate]_vars

(***************************************************************************)
(* LLMService serving several requests at a time: analyze_response and     *)
(* generate_next_question are coroutines of one service object, and each   *)
(* await of a provider lets the other requests run. A request reads and    *)
(* writes the field _current_provider of the service.                      *)
(***************************************************************************)
\* the frame of a request at an await
Task(pc, op, n, original_provider, via) ==
    [pc |-> pc, op |-> op, attempt_number |-> n,
     original_provider |-> original_provider, via |-> via]

ServiceOnly ==
    UNCHANGED <<questions, responses, risk_score, risk_level, risk_factors, updated_at,
                status, audit_trail, clock, next_id, result, succeeded, calc, analyses,
                llm>>

\* _make_llm_call: the provider asked is the current one of the service
ProviderAttempt(t, op, n) ==
    service' = [service EXCEPT
                   !.tasks[t] = Task("primary", op, n, "", service.current_provider)]

\* finally: self._current_provider = original_provider
Restore(original_provider) == original_provider

\* a request is made: its first attempt calls _make_llm_call
ProviderBegin(t, op) ==
    /\ service.tasks[t].pc = "idle"
    /\ service.started < MaxProviderCalls
    /\ service' = [service EXCEPT
                      !.started = service.started + 1,
                      !.tasks[t] = Task("primary", op, 1, "", service.current_provider)]
    /\ ServiceOnly

\* the request ends: it returns, or RetryError after the last attempt
ProviderEnd(t, current) ==
    service' = [service EXCEPT !.tasks[t] = NoTask, !.current_provider = current]

\* an attempt has raised: tenacity waits, or gives up after the last attempt
ProviderFailed(t, current) ==
    IF service.tasks[t].attempt_number >= MAX_RETRIES
    THEN ProviderEnd(t, current)
    ELSE service' = [service EXCEPT !.tasks[t].pc = "wait",
                                    !.current_provider = current]

\* the call of _make_llm_call returns a completion, returns one without
\* content, or raises; when it raises the attempt enters _fallback_llm_call,
\* which keeps the current provider, sets the secondary one and calls
\* _make_llm_call
ProviderPrimary(t, reply) ==
    /\ service.tasks[t].pc = "primary"
    /\ IF reply = "content" THEN ProviderEnd(t, service.current_provider)
       ELSE IF reply = "" THEN ProviderFailed(t, service.current_provider)
       ELSE service' = [service EXCEPT
                           !.current_provider = SECONDARY_PROVIDER,
                           !.tasks[t] = Task("fallback", service.tasks[t].op,
                                             service.tasks[t].attempt_number,
                                             service.current_provider,
                                             SECONDARY_PROVIDER)]
    /\ ServiceOnly

\* the call inside _fallback_llm_call is over: the finally clause restores
\* the provider the fallback found, then the attempt returns or raises
ProviderFallback(t, reply) ==
    /\ service.tasks[t].pc = "fallback"
    /\ IF reply = "content"
       THEN ProviderEnd(t, Restore(service.tasks[t].original_provider))
       ELSE ProviderFailed(t, Restore(service.tasks[t].original_provider))
    /\ ServiceOnly

\* the wait of wait_exponential is over: the next attempt
ProviderRetry(t) ==
    /\ service.tasks[t].pc = "wait"
    /\ ProviderAttempt(t, service.tasks[t].op, service.tasks[t].attempt_number + 1)
    /\ ServiceOnly

ServiceOperations == {"analyze_response", "generate_next_question"}

NextProviders ==
    \/ \E t \in 1..MaxTasks, op \in ServiceOperations : ProviderBegin(t, op)
    \/ \E t \in 1..MaxTasks, reply \in ProviderReplies : ProviderPrimary(t, reply)
    \/ \E t \in 1..MaxTasks, reply \in ProviderReplies : ProviderFallback(t, reply)
    \/ \E t \in 1..MaxTasks : ProviderRetry(t)

SpecProviders == Init /\ [][NextProviders]_vars

(***************************************************************************)
(* Properties                                                              *)
(***************************************************************************)
\* a step in which a call of the operation is made, and returns or raises
Called(op) ==
    /\ calc.pc = "idle"
    /\ calc'.pc = "idle"
    /\ clock' = clock + 1
    /\ result'.op = op

AddQuestionCalled == Called("add_question")

AddResponseCalled == Called("add_response")

UpdateCalled == Called("update_risk_assessment")

\* a step in which calculate_overall_risk is called
CalcCalled ==
    /\ calc.pc = "idle"
    /\ clock' = clock + 1
    /\ calc'.pc = "await" \/ result'.op = "calculate_overall_risk"

\* a step in which a call returns normally
CallSucceeded == calc'.pc # "await" /\ result'.ok

QuestionIds == {questions[i].id : i \in DOMAIN questions}

RiskFields == <<risk_score, risk_level, risk_factors>>

CapacityError == <<"Maximum number of questions (50) exceeded">>

DuplicateError == <<"Question with this ID already exists">>

C1_Step ==
    AddQuestionCalled =>
        /\ Len(questions) = 50 =>
               /\ result'.raised = "ValueError"
               /\ result'.errors = CapacityError
               /\ questions' = questions
        /\ Len(questions) < 50 /\ result'.args[1] \notin QuestionIds =>
               /\ result'.ok
               /\ Len(questions') = Len(questions) + 1

\* C1: an add_question call with an id not yet present succeeds while fewer
\* than 50 questions are held, so that 50 such calls on a fresh questionnaire
\* leave 50 questions; every add_question call made with 50 questions held
\* raises the capacity error and leaves questions alone; len(questions) <= 50
\* in every reachable state.
C1_Capacity == [](Len(questions) <= 50) /\ [][C1_Step]_vars

\* the 51st question, of an id not yet present, has been refused
C1_Witness ==
    /\ Len(questions) = 50
    /\ result.op = "add_question"
    /\ result.errors = CapacityError
    /\ result.args[1] \notin QuestionIds

UniqueIds ==
    \A i, j \in DOMAIN questions : questions[i].id = questions[j].id => i = j

C2_Step ==
    AddQuestionCalled /\ result'.args[1] \in QuestionIds =>
        /\ result'.raised = "ValueError"
        /\ result'.errors = IF Len(questions) < 50 THEN DuplicateError
                            ELSE CapacityError
        /\ questions' = questions

\* C2: no two entries of questions share an id; add_question of a question
\* whose id is already present raises and does not append it, and the error
\* is the duplicate-id error when fewer than 50 questions are held, the
\* capacity error when 50 are.
C2_UniqueIds == []UniqueIds /\ [][C2_Step]_vars

\* a question already present has been refused as a duplicate
C2_Witness ==
    /\ result.op = "add_question"
    /\ result.errors = DuplicateError
    /\ result.args[1] \in QuestionIds
    /\ Len(questions) < 50

C2_OriginalStep ==
    AddQuestionCalled /\ result'.args[1] \in QuestionIds =>
        /\ result'.raised = "ValueError"
        /\ result'.errors = DuplicateError
        /\ questions' = questions

\* C2 as stated: add_question of a question whose id is already present
\* always fails with the duplicate-id error.
C2_Original == []UniqueIds /\ [][C2_OriginalStep]_vars

\* the action an operation is audited under
AuditedAs(op) ==
    IF op = "calculate_overall_risk" THEN "update_risk_assessment" ELSE op

C3_Step ==
    IF CallSucceeded
    THEN /\ Len(audit_trail') = Len(audit_trail) + 1
         /\ audit_trail'[Len(audit_trail')].action = AuditedAs(result'.op)
         /\ succeeded' = succeeded + 1
    ELSE /\ audit_trail' = audit_trail
         /\ succeeded' = succeeded

\* C3: every call of add_question, add_response, update_risk_assessment or
\* calculate_overall_risk that succeeds extends audit_trail by exactly one
\* entry whose action names the operation (update_risk_assessment for a
\* calculation), every call that fails appends none, and len(audit_trail)
\* equals the number of calls that succeeded.
C3_OneEntryPerMutation == [](Len(audit_trail) = succeeded) /\ [][C3_Step]_vars

\* every operation has been audited, and a call has failed since
C3_Witness ==
    /\ {audit_trail[i].action : i \in DOMAIN audit_trail}
           = {"add_question", "add_response", "update_risk_assessment"}
    /\ ~result.ok
    /\ result.op = "calculate_overall_risk"

C4_Step ==
    /\ IsPrefix(audit_trail, audit_trail')
    /\ \A i \in DOMAIN audit_trail' \ DOMAIN audit_trail :
           audit_trail'[i].timestamp = clock'

\* C4: across every step the audit_trail before it is a prefix of the
\* audit_trail after it, an entry that the step adds carries the time of
\* the call that made the mutation, and the entries are in the order of
\* these times.
C4_AppendOnly ==
    /\ [][C4_Step]_vars
    /\ [](\A i, j \in DOMAIN audit_trail :
              i < j => audit_trail[i].timestamp < audit_trail[j].timestamp)

\* an update audited after an add_response audited after an add_question
C4_Witness ==
    /\ Len(audit_trail) >= 3
    /\ audit_trail[1].action = "add_question"
    /\ audit_trail[2].action = "add_response"
    /\ audit_trail[Len(audit_trail)].action = "update_risk_assessment"

C5_Step ==
    AddResponseCalled /\ result'.args[1] \notin QuestionIds =>
        /\ ~result'.ok
        /\ result'.raised = ""
        /\ result'.errors = <<"Question not found">>
        /\ UNCHANGED <<responses, audit_trail, questions, updated_at, RiskFields>>

\* C5: add_response with a question id that no question of the questionnaire
\* has returns (False, ['Question not found']) and leaves responses,
\* audit_trail, questions, updated_at and the risk fields as they were.
C5_QuestionNotFound == [][C5_Step]_vars

\* an unknown id has been refused on a questionnaire that holds a response
C5_Witness ==
    /\ result.op = "add_response"
    /\ result.errors = <<"Question not found">>
    /\ result.args[1] \notin QuestionIds
    /\ responses # <<>>

\* the question an add_response call is about, and what its validation says
AnsweredQuestion(id) == CHOOSE q \in Range(questions) : q.id = id

C6_Verdict(id, response) == validate_response(AnsweredQuestion(id), response)

C6_Rejected(verdict) ==
    ~verdict.ok =>
        /\ ~result'.ok
        /\ result'.raised = ""
        /\ result'.errors = verdict.errors
        /\ UNCHANGED <<responses, audit_trail, questions, updated_at, RiskFields>>

C6_Step ==
    AddResponseCalled /\ result'.args[1] \in QuestionIds =>
        C6_Rejected(C6_Verdict(result'.args[1], result'.args[2]))

\* C6: add_response with an answer that validate_response of the question
\* rejects returns (False, errors) with the errors collected by the
\* validation, and leaves responses, audit_trail, questions, updated_at and
\* the risk fields as they were.
C6_InvalidAnswer == [][C6_Step]_vars

\* an invalid answer has been refused for a question that has a response
C6_Witness ==
    /\ result.op = "add_response"
    /\ ~result.ok
    /\ result.args[1] \in QuestionIds
    /\ \E i \in DOMAIN responses : responses[i].key = result.args[1]

ResponsesOf(rs, id) == {i \in DOMAIN rs : rs[i].key = id}

C7_Stored(id, response) ==
    /\ Cardinality(ResponsesOf(responses', id)) = 1
    /\ \A i \in ResponsesOf(responses', id) :
           /\ Decrypt(responses'[i].value) = PyStr(Str(response))
           /\ responses'[i].timestamp = clock'
    /\ \A i \in DOMAIN responses :
           responses[i].key # id => responses'[i] = responses[i]
    /\ Len(audit_trail') = Len(audit_trail) + 1
    /\ audit_trail'[Len(audit_trail')].action = "add_response"
    /\ audit_trail'[Len(audit_trail')].question_id = id

C7_Step ==
    AddResponseCalled /\ result'.ok => C7_Stored(result'.args[1], result'.args[2])

\* C7: responses holds at most one entry per question id; an add_response
\* that succeeds leaves exactly one entry for its id, holding the answer of
\* this call whatever was stored before, leaves the entries of the other
\* ids alone and appends one 'add_response' audit entry, so that two calls
\* for one id leave the second answer and two audit entries.
C7_LatestWins ==
    /\ [](\A i, j \in DOMAIN responses :
              responses[i].key = responses[j].key => i = j)
    /\ [][C7_Step]_vars

\* one id has been answered twice, the second time with Nao: two audit
\* entries, one response, which holds Nao and is of the second call
C7_Witness ==
    /\ result.op = "add_response"
    /\ result.ok
    /\ result.args[2] = PyStr(Nao)
    /\ \E i, j \in DOMAIN audit_trail :
           /\ i < j
           /\ audit_trail[i].action = "add_response"
           /\ audit_trail[j].action = "add_response"
           /\ audit_trail[i].question_id = result.args[1]
           /\ audit_trail[j].question_id = result.args[1]
    /\ \E i \in DOMAIN responses :
           /\ responses[i].key = result.args[1]
           /\ responses[i].timestamp = audit_trail[3].timestamp
           /\ Decrypt(responses[i].value) = PyStr(Nao)
    /\ Len(responses) = 1
    /\ Len(audit_trail) = 3

\* C8: in every reachable state 0 <= risk_score <= 100 and risk_level is one
\* of LOW, MEDIUM, HIGH, CRITICAL.
C8_RiskInRange ==
    /\ 0 <= risk_score
    /\ risk_score <= 1000000
    /\ risk_level \in {"LOW", "MEDIUM", "HIGH", "CRITICAL"}

\* a calculation has clamped the score to 100
C8_Witness ==
    /\ risk_score = 1000000
    /\ risk_level = "CRITICAL"
    /\ result.op = "calculate_overall_risk"
    /\ result.ok

C9_Step ==
    /\ UpdateCalled
    /\ \/ result'.args[1] < 0
       \/ result'.args[1] > 1000000
       \/ result'.args[2] \notin {"LOW", "MEDIUM", "HIGH", "CRITICAL"}
    => /\ result'.raised = "ValueError"
       /\ UNCHANGED <<RiskFields, updated_at, audit_trail>>

\* C9: update_risk_assessment called with a score outside [0, 100] or with a
\* level outside LOW, MEDIUM, HIGH, CRITICAL raises, and risk_score,
\* risk_level, risk_factors, updated_at and audit_trail keep their values.
C9_UpdateRejected == [][C9_Step]_vars

\* a level outside the set has been refused, with a score inside the range,
\* after an update that went through
C9_Witness ==
    /\ result.op = "update_risk_assessment"
    /\ result.raised = "ValueError"
    /\ result.args[1] = 0
    /\ result.args[2] = "SEVERE"
    /\ risk_score = 1000000
    /\ risk_factors # <<>>

C10_Step ==
    CalcCalled /\ responses = <<>> =>
        /\ calc'.pc = "idle"
        /\ result'.raised = "ValueError"
        /\ result'.errors = <<"No responses found in questionnaire">>
        /\ UNCHANGED <<RiskFields, audit_trail>>

\* C10: calculate_overall_risk on a questionnaire whose responses dict is
\* empty raises ValueError('No responses found in questionnaire') and leaves
\* risk_score, risk_level, risk_factors and audit_trail unchanged.
C10_NoResponses == [][C10_Step]_vars

\* the calculation has been refused on a questionnaire with questions and an
\* assessment, but no response
C10_Witness ==
    /\ result.op = "calculate_overall_risk"
    /\ result.errors = <<"No responses found in questionnaire">>
    /\ responses = <<>>
    /\ questions # <<>>
    /\ risk_score = 1000000

\* a step in which a calculate_overall_risk call returns or raises
CalcEnded ==
    /\ calc'.pc = "idle"
    /\ result'.op = "calculate_overall_risk"
    /\ CalcCalled \/ calc.pc = "await"

\* after the step every recorded response has been analysed without a failure
AllAnalysed ==
    /\ responses # <<>>
    /\ Len(analyses') = Len(responses)
    /\ \A i \in DOMAIN analyses' : analyses'[i].exc = ""

\* the weight table, in hundredths
C11_Weight(question) ==
    IF "factor_type" \notin DOMAIN question.lgpd_metadata THEN 30
    ELSE CASE question.lgpd_metadata.factor_type = "age" -> 20
           [] question.lgpd_metadata.factor_type = "medical_history" -> 30
           [] question.lgpd_metadata.factor_type = "lifestyle" -> 15
           [] question.lgpd_metadata.factor_type = "family_history" -> 20
           [] question.lgpd_metadata.factor_type = "current_conditions" -> 15
           [] OTHER -> 10

RECURSIVE C11_Sum(_)
\* the sum of raw score x weight over the analyses, in ten-thousandths
C11_Sum(done) ==
    IF done = <<>> THEN 0
    ELSE done[1].risk_weight * C11_Weight(AnsweredQuestion(done[1].key))
         + C11_Sum(Tail(done))

C11_Returned(sum) ==
    /\ result'.ok
    /\ result'.value[1] = IF sum <= 10000 THEN sum ELSE 10000
    /\ 0 <= result'.value[1]
    /\ result'.value[1] <= 10000

C11_Outcome(sum) ==
    IF sum >= 0 THEN C11_Returned(sum)
    ELSE /\ result'.raised = "ValueError"
         /\ UNCHANGED <<RiskFields, audit_trail>>

C11_Step == CalcEnded /\ AllAnalysed => C11_Outcome(C11_Sum(analyses'))

\* C11: when every analysis of a calculation succeeds and the sum of raw
\* score x weight over the recorded responses is not negative, the
\* calculation returns min(1.0, sum), which is within [0, 1]; the weight is
\* that of the table for the question's factor_type, 0.1 for a factor_type
\* not in the table, and that of medical_history for a question without
\* factor_type; when the sum is negative the calculation raises and
\* changes nothing.
C11_WeightedSum == [][C11_Step]_vars

\* two answers analysed, the first of a factor_type that is not in the table
C11_Witness ==
    /\ result.op = "calculate_overall_risk"
    /\ result.ok
    /\ Len(analyses) = 2
    /\ questions[1].lgpd_metadata = [factor_type |-> "genetic"]
    /\ result.value[1] = 20 * 10 + 90 * 20

C11_OriginalStep == CalcEnded /\ AllAnalysed => C11_Returned(C11_Sum(analyses'))

\* C11 as stated: whenever every analysis succeeds the calculation returns
\* min(1.0, sum of raw score x weight).
C11_Original == [][C11_OriginalStep]_vars

\* the threshold table, on a score in ten-thousandths
ThresholdLevel(score) ==
    IF score <= 3000 THEN "LOW"
    ELSE IF score <= 6000 THEN "MEDIUM"
    ELSE IF score <= 8000 THEN "HIGH"
    ELSE "CRITICAL"

C12_Step ==
    CalcEnded /\ result'.ok =>
        /\ risk_score' = 100 * result'.value[1]
        /\ risk_level' = result'.value[2]
        /\ result'.value[2] = ThresholdLevel(result'.value[1])
        /\ risk_factors' = result'.value[3]

\* C12: a calculate_overall_risk call that returns leaves risk_score at 100 x
\* the returned score, risk_level at the returned level, which is the level
\* of the threshold table for the returned score, and risk_factors at the
\* returned list; under add_question, add_response and
\* calculate_overall_risk calls risk_level is always the level of the
\* threshold table for risk_score / 100.
C12_StoredAssessment ==
    /\ [][C12_Step]_vars
    /\ [](risk_level = ThresholdLevel(risk_score \div 100))

\* two answers weighing 0.9 x 0.3 + 0.9 x 0.2 = 0.45 have been stored as 45, MEDIUM
C12_Witness ==
    /\ result.op = "calculate_overall_risk"
    /\ result.ok
    /\ risk_score = 450000
    /\ risk_level = "MEDIUM"
    /\ Len(risk_factors) = 2

\* C13: get_risk_level of a score in [0, 1] returns LOW when score <= 0.3,
\* MEDIUM when 0.3 < score <= 0.6, HIGH when 0.6 < score <= 0.8 and CRITICAL
\* when score > 0.8; of a score outside [0, 1] it raises ValueError.
C13_Classify ==
    result.op = "get_risk_level" =>
        IF 0 <= result.args[1] /\ result.args[1] <= 10000
        THEN /\ result.ok
             /\ result.value = <<ThresholdLevel(result.args[1])>>
        ELSE /\ ~result.ok
             /\ result.raised = "ValueError"

\* a score just above 0.8 has been classified CRITICAL
C13_Witness ==
    /\ result.op = "get_risk_level"
    /\ result.args = <<8001>>
    /\ result.value = <<"CRITICAL">>

\* the scores 0.0, 0.3, 0.31, 0.6, 0.61, 0.8, 0.81, 1.0
C14_Scores == <<0, 3000, 3100, 6000, 6100, 8000, 8100, 10000>>

C14_Yields(levels) ==
    \A k \in DOMAIN C14_Scores :
        result.op = "get_risk_level" /\ result.args = <<C14_Scores[k]>> =>
            result.ok /\ result.value = <<levels[k]>>

\* C14: for the scores 0.0, 0.3, 0.31, 0.6, 0.61, 0.8, 0.81, 1.0
\* get_risk_level returns LOW, LOW, MEDIUM, MEDIUM, HIGH, HIGH, CRITICAL,
\* CRITICAL: a score equal to a threshold is of the level of that threshold.
C14_Boundaries ==
    C14_Yields(<<"LOW", "LOW", "MEDIUM", "MEDIUM", "HIGH", "HIGH", "CRITICAL",
                 "CRITICAL">>)

\* 0.3 has been classified LOW
C14_Witness ==
    /\ result.op = "get_risk_level"
    /\ result.args = <<3000>>
    /\ result.value = <<"LOW">>

\* C14 as stated: the eight scores yield LOW, MEDIUM, MEDIUM, HIGH, HIGH,
\* CRITICAL, CRITICAL, CRITICAL.
C14_Original ==
    C14_Yields(<<"LOW", "MEDIUM", "MEDIUM", "HIGH", "HIGH", "CRITICAL", "CRITICAL",
                 "CRITICAL">>)

\* one choice question with the options Sim and Nao and no factor_type, answered Sim
C15_Scenario ==
    /\ Len(questions) = 1
    /\ questions[1].type = "choice"
    /\ questions[1].options = <<Sim, Nao>>
    /\ "factor_type" \notin DOMAIN questions[1].lgpd_metadata
    /\ Len(responses) = 1
    /\ responses[1].key = questions[1].id

C15_Step ==
    /\ C15_Scenario /\ CalcCalled => calc'.pc = "await"
    /\ C15_Scenario /\ CalcEnded /\ AllAnalysed /\ analyses'[1].risk_weight = 70 =>
           /\ result'.ok
           /\ result'.value[1] = 70 * 10
           /\ result'.value[2] = "LOW"

\* C15 as stated: with one choice question of options Sim and Nao without
\* factor_type, answered Sim, calculate_overall_risk reaches the analyzer
\* and, the analyzer reporting 0.7, returns the score 0.07 and the level LOW.
C15_Original == [][C15_Step]_vars

C16_Step ==
    /\ Len(responses) = 1
    /\ CalcEnded
    /\ AllAnalysed
    /\ analyses'[1].risk_weight \in {20, 50, 70, 90}
    => /\ result'.ok
       /\ result'.value[2] = ThresholdLevel(100 * analyses'[1].risk_weight)

\* C16 as stated: with exactly one answered question calculate_overall_risk
\* returns the level of the threshold table for the analyzer's risk_score of
\* that answer: LOW for 0.2, MEDIUM for 0.5, HIGH for 0.7, CRITICAL for 0.9.
C16_Original == [][C16_Step]_vars

C17_Step ==
    /\ Called("analyze_response") =>
           /\ result'.raised = "ValueError"
           /\ \E i \in DOMAIN questions :
                  /\ questions[i].id = result'.args[1]
                  /\ ~validate_response(questions[i], result'.args[2]).ok
                  /\ result'.errors =
                         <<InvalidResponse(
                               validate_response(questions[i], result'.args[2]).errors)>>
    /\ \A i \in DOMAIN questions, response \in AnalyzeInputs :
           ~validate_response(questions[i], response).ok /\ AnalyzeBegin(i, response)
               => /\ calc'.pc = "idle"
                  /\ Called("analyze_response")
                  /\ result'.args = <<questions[i].id, response>>

\* C17: analyze_response on an answer that fails validation raises at once a
\* ValueError whose message lists the validation errors, without reaching
\* the await of the analyzer; it is suspended at the analyzer only for an
\* answer that passed validation.
C17_FailFast == [][C17_Step]_vars

\* None has been refused as the answer of a question, with no analysis pending
C17_Witness ==
    /\ result.op = "analyze_response"
    /\ result.raised = "ValueError"
    /\ Len(result.args) = 2
    /\ result.args[2] = PyNone
    /\ calc.pc = "idle"

\* a step of a calculate_overall_risk call: its start, the return of an
\* analysis or its cancellation
CalcStep == CalcCalled \/ calc.pc = "await"

C18_Step ==
    /\ CalcStep /\ ~(CalcEnded /\ result'.ok) =>
           UNCHANGED <<risk_score, risk_level, risk_factors, audit_trail>>
    /\ CalcStep /\ ~UNCHANGED <<risk_score, risk_level, risk_factors, audit_trail>> =>
           /\ AllAnalysed
           /\ result'.value[3] = risk_factors'

\* C18: while a calculate_overall_risk call is suspended at the analyzer,
\* and when it ends because an analysis failed or because it was cancelled
\* at an await, risk_score, risk_level, risk_factors and audit_trail are as
\* before the call; they change only in the step in which the call returns,
\* after every recorded response has been analysed.
C18_NoPartialUpdate == [][C18_Step]_vars

\* a calculation has been cancelled after an earlier one had stored its result
C18_Witness ==
    /\ result.op = "calculate_overall_risk"
    /\ result.raised = "CancelledError"
    /\ risk_score > 0
    /\ audit_trail[Len(audit_trail)].action = "update_risk_assessment"

\* a raw factor is a mapping with type, description, severity and
\* confidence whose severity and confidence are numbers of [0, 1]
C19_Keeps(factor) ==
    /\ "ty" \notin DOMAIN factor
    /\ {"type", "description", "severity", "confidence"} \subseteq DOMAIN factor
    /\ Float(factor.severity).exc = ""
    /\ Float(factor.confidence).exc = ""
    /\ 0 <= Float(factor.severity).n /\ Float(factor.severity).n <= 100
    /\ 0 <= Float(factor.confidence).n /\ Float(factor.confidence).n <= 100

\* the normalized factor is the raw one: its numbers, its sanitized texts, the mark
C19_Of(normalized, raw) ==
    /\ normalized.severity.n = Float(raw.severity).n
    /\ normalized.confidence.n = Float(raw.confidence).n
    /\ normalized.type.s = sanitize_text(raw.type).s
    /\ normalized.description.s = sanitize_text(raw.description).s
    /\ normalized.metadata.lgpd_compliant = TRUE

C19_InOrder(normalized, kept) ==
    /\ Len(normalized) = Len(kept)
    /\ \A k \in DOMAIN normalized : C19_Of(normalized[k], kept[k])

C20_Original ==
    result.op = "_validate_risk_factors" =>
        /\ result.raised = ""
        /\ Len(result.value) <= Len(result.args[1])

\* C21 as stated: sanitize_text applied to its own output returns it
\* unchanged, for every text, also one with the characters html.escape
\* rewrites.
C21_Original ==
    result.op = "sanitize_text" =>
        sanitize_text(result.value[1]).s = result.value[1].s

\* the text has the substring <script at some position, in any case
HasScriptTag(cs) ==
    \E k \in DOMAIN cs :
        StartsWithNoCase(SubSeq(cs, k, Len(cs)), <<"<", "s", "c", "r", "i", "p", "t">>)

\* C22: the text sanitize_text returns has no <script substring, whatever
\* the text it was given, and sanitize_text of the empty string is the
\* empty string.
C22_NoScript ==
    result.op = "sanitize_text" =>
        /\ result.raised = ""
        /\ ~HasScriptTag(result.value[1].s)
        /\ result.args[1].s = <<>> => result.value[1].s = <<>>

\* <script>alert(1)</script> has been sanitized to alert(1)
C22_Witness ==
    /\ result.op = "sanitize_text"
    /\ result.args[1].s = ScriptText
    /\ result.value[1].s = <<"a", "l", "e", "r", "t", "(", "1", ")">>

\* the latest call validated a number against min_value = a <= max_value = b
C23_Case(a, b) ==
    /\ result.op = "validate_response"
    /\ result.args[1].type = "numeric"
    /\ result.args[1].validation_rules = <<Rule("min_value", a), Rule("max_value", b)>>
    /\ a <= b
    /\ result.args[2].ty \in {"int", "float"}

\* C23 as stated: a numeric response r to a numeric question with the rules
\* min_value = a and max_value = b, a <= b, passes validation if and only
\* if a <= r <= b.
C23_Original ==
    \A a \in 0..(MaxValue + 1), b \in 0..(MaxValue + 1) :
        C23_Case(a, b) =>
            (result.ok <=> /\ 100 * a <= Float(result.args[2]).n
                           /\ Float(result.args[2]).n <= 100 * b)

\* C24: validate_response returns (ok, errors) for every question and every
\* response, also None, a text that spells no number and a value of the
\* wrong type: no exception leaves it, and ok is true if and only if
\* errors is empty.
C24_NeverRaises ==
    result.op = "validate_response" =>
        /\ result.raised = ""
        /\ result.ok <=> result.errors = <<>>

\* None given to a numeric question has come back as an error, not an exception
C24_Witness ==
    /\ result.op = "validate_response"
    /\ result.args[1].type = "numeric"
    /\ result.args[2] = PyNone
    /\ ~result.ok
    /\ Len(result.errors) = 1

\* the error of a rule that the response violates, none when it does not
C25_RuleError(r, response) ==
    CASE r.rule = "min_length" /\ StrLen(response) < r.value ->
            <<"Response must be at least " \o ToString(r.value) \o " characters long">>
      [] r.rule = "max_length" /\ StrLen(response) > r.value ->
            <<"Response must be at most " \o ToString(r.value) \o " characters long">>
      [] r.rule = "min_value" /\ Float(response).exc = ""
            /\ Float(response).n < 100 * r.value ->
            <<"Response must be at least " \o ToString(r.value)>>
      [] r.rule = "max_value" /\ Float(response).exc = ""
            /\ Float(response).n > 100 * r.value ->
            <<"Response must be at most " \o ToString(r.value)>>
      [] OTHER -> <<>>

RECURSIVE C25_RuleErrors(_, _)
C25_RuleErrors(rules, response) ==
    IF rules = <<>> THEN <<>>
    ELSE C25_RuleError(rules[1], response) \o C25_RuleErrors(Tail(rules), response)

RECURSIVE C25_Within(_, _)
\* the messages occur, in their order, among the errors
C25_Within(messages, errors) ==
    IF messages = <<>> THEN TRUE
    ELSE IF errors = <<>> THEN FALSE
    ELSE IF messages[1] = errors[1] THEN C25_Within(Tail(messages), Tail(errors))
    ELSE C25_Within(messages, Tail(errors))

\* C25 as stated: the errors validate_response returns hold the error of
\* the type check, if any, and one error for each rule among min_length,
\* max_length, min_value and max_value that the response violates, in the
\* order of the rules; no rule is skipped because an earlier one failed.
C25_Original ==
    result.op = "validate_response" =>
        C25_Within(TypeCheck(result.args[1], result.args[2]).errors
                       \o C25_RuleErrors(result.args[1].validation_rules, result.args[2]),
                   result.errors)

\* the same for the rule sets without max_value, whose comparison is that
\* of min_value: a rule after a float() that raises is not applied
C25_WithoutMaxValue ==
    /\ result.op = "validate_response"
    /\ \A k \in DOMAIN result.args[1].validation_rules :
           result.args[1].validation_rules[k].rule # "max_value"
    => C25_Original

\* a step in which Questionnaire.__init__ is called
ConstructCalled == status = "" /\ result'.op = "__init__"

\* the questionnaire as __init__ leaves it
C26_Initial ==
    /\ questions' = <<>>
    /\ responses' = <<>>
    /\ audit_trail' = <<>>
    /\ risk_score' = 0
    /\ risk_level' = "LOW"
    /\ risk_factors' = <<>>
    /\ status' = "in_progress"

C26_Step ==
    ConstructCalled =>
        IF \A k \in {"purpose", "data_usage", "retention_period", "sharing_policy"} :
               k \in DOMAIN result'.args[1]
        THEN result'.ok /\ C26_Initial
        ELSE /\ result'.raised = "ValueError"
             /\ status' = ""

C27_Step ==
    \A i \in DOMAIN questions :
        questions[i].required /\ AnalyzeBegin(i, PyNone) =>
            /\ calc'.pc = "idle"
            /\ result'.op = "analyze_response"
            /\ result'.raised = "ValueError"
            /\ result'.errors =
                   <<InvalidResponse(validate_response(questions[i], PyNone).errors)>>

\* C27 as stated: analyze_response of a required question with the answer
\* None raises the Invalid response ValueError and does not reach the
\* analyzer.
C27_Original == [][C27_Step]_vars

\* the validation_rules say nothing of a data classification or an LGPD category
NoLgpdRules(question) ==
    \A k \in DOMAIN question.validation_rules :
        question.validation_rules[k].rule \notin {"data_classification", "lgpd_category"}

C28_Step ==
    \A i \in DOMAIN questions, response \in AnalyzeInputs :
        /\ NoLgpdRules(questions[i])
        /\ validate_response(questions[i], response).ok
        /\ AnalyzeBegin(i, response)
        => /\ calc'.pc = "idle"
           /\ result'.op = "analyze_response"
           /\ result'.raised = "ValueError"

\* C28 as stated: analyze_response of a question whose validation_rules
\* carry no data classification and no LGPD category raises a ValueError
\* about LGPD compliance, also when the answer is valid.
C28_Original == [][C28_Step]_vars

RECURSIVE CallsOf(_, _)
\* how many times the provider occurs in the list of calls
CallsOf(provider, calls) ==
    IF calls = <<>> THEN 0
    ELSE (IF calls[1] = provider THEN 1 ELSE 0) + CallsOf(provider, Tail(calls))

C29_Step ==
    /\ llm'.pc = "secondary" /\ llm.pc # "secondary" =>
           CallsOf("primary", llm.calls) = MAX_RETRIES
    /\ result'.raised = "RetryError" /\ result' # result =>
           /\ llm.pc = "secondary"
           /\ CallsOf("secondary", llm.calls) >= 1

\* C29 as stated: in one analysis request the secondary provider is
\* contacted only when the primary provider has been tried as many times
\* as the attempt limit allows, and the terminal error is raised only after
\* the secondary provider has failed too.
C29_Original == [][C29_Step]_vars

C30_Step ==
    \A question \in LLMQuestions, response \in LLMResponses :
        ~validate_response(question, response).ok /\ LLMBegin(question, response) =>
            /\ llm'.pc = "idle"
            /\ result'.op = "LLMService.analyze_response"
            /\ result'.raised = "ValueError"

\* C30 as stated: an answer that validation rejects on the analysis path is
\* reported after that one evaluation: no further attempt is made and no
\* wait precedes the error.
C30_Original == [][C30_Step]_vars

RECURSIVE C31_Sum(_)
\* the sum over the analyses of raw score x table weight x risk_weight of
\* the question, in ten-thousandths
C31_Sum(done) ==
    IF done = <<>> THEN 0
    ELSE done[1].risk_weight * C11_Weight(AnsweredQuestion(done[1].key))
             * AnsweredQuestion(done[1].key).risk_weight
         + C31_Sum(Tail(done))

C31_Step ==
    CalcEnded /\ AllAnalysed /\ result'.ok =>
        result'.value[1] = IF C31_Sum(analyses') <= ONE THEN C31_Sum(analyses') ELSE ONE

\* C31 as stated: the contribution of an answered question to the score
\* calculate_overall accumulates is proportional to the risk_weight of the
\* question: the score returned is min(1.0, sum of raw score x weight of the
\* factor_type x risk_weight).
C31_Original == [][C31_Step]_vars

\* no response key was analysed twice
C32_KeysOnce(done) ==
    \A i, j \in DOMAIN done : done[i].key = done[j].key => i = j

\* the score a calculation commits when it counts each analysis once
C32_Committed(sum) == PERCENT * (IF sum <= ONE THEN sum ELSE ONE)

\* the stored answer of some analysed response is no longer the one analysed
C32_Overwritten(done, rs) ==
    \E i \in DOMAIN done :
        \E j \in DOMAIN rs : rs[j].key = done[i].key /\ rs[j].value # done[i].sanitized

C32_Step ==
    CalcEnded /\ result'.ok =>
        /\ C32_KeysOnce(analyses')
        /\ Len(analyses') = Len(responses')
        /\ risk_score' = C32_Committed(C11_Sum(analyses'))

C32_OriginalStep ==
    CalcEnded /\ result'.ok /\ C32_Overwritten(analyses', responses') =>
        \/ ~C32_KeysOnce(analyses')
        \/ risk_score' > C32_Committed(C11_Sum(analyses'))

C33_SpellsNumber(v) == v.ty = "str" /\ ~v.enc /\ ParseFloat(v.s).ok

\* what the type check is to accept, by the kind of the question
C33_Accepts(question, response) ==
    CASE question.type = "boolean" -> response.ty = "bool"
      [] question.type = "choice" ->
            /\ response.ty = "str"
            /\ \E k \in DOMAIN question.options : question.options[k] = response.s
      [] question.type = "multiple_choice" ->
            /\ response.ty = "list"
            /\ \A k \in DOMAIN response.l :
                   \E o \in DOMAIN question.options : question.options[o] = response.l[k]
      [] question.type = "numeric" ->
            response.ty \in {"int", "float", "bool"} \/ C33_SpellsNumber(response)
      [] question.type = "text" -> TRUE

\* C33: validate_response rejects every response that the type check of
\* the question's kind does not accept, and on a question without
\* validation rules it accepts exactly the responses the type check
\* accepts: a boolean for boolean, one of the options for choice, a list of
\* options for multiple_choice, what float() converts for numeric, and
\* anything for text.
C33_TypeCheck ==
    result.op = "validate_response" =>
        /\ ~C33_Accepts(result.args[1], result.args[2]) => ~result.ok
        /\ result.args[1].validation_rules = <<>> =>
               (result.ok <=> C33_Accepts(result.args[1], result.args[2]))

\* a list with an element that is no option was given for multiple_choice
C33_Witness ==
    /\ result.op = "validate_response"
    /\ result.args[1].type = "multiple_choice"
    /\ result.args[2] = PyList(<<Sim, NotANumber>>)
    /\ ~result.ok

\* the audit entries of update_risk_assessment, in their order
C34_Updates(trail) == SelectSeq(trail, LAMBDA e : e.action = "update_risk_assessment")

\* the last audit entry after the step
C34_Entry == audit_trail'[Len(audit_trail')]

C34_Recorded(level, factors) ==
    /\ Len(audit_trail') = Len(audit_trail) + 1
    /\ C34_Entry.action = "update_risk_assessment"
    /\ C34_Entry.metadata.old_risk_level = risk_level
    /\ C34_Entry.metadata.new_risk_level = level
    /\ C34_Entry.metadata.risk_factors_count = Len(factors)
    /\ risk_level' = level

C34_Step ==
    /\ UpdateCalled /\ result'.ok => C34_Recorded(result'.args[2], result'.args[3])
    /\ CalcEnded /\ result'.ok => C34_Recorded(result'.value[2], result'.value[3])

C34_Chained(updates) ==
    \A k \in DOMAIN updates :
        updates[k].metadata.old_risk_level =
            IF k = 1 THEN "LOW" ELSE updates[k - 1].metadata.new_risk_level

\* C34: the audit entry of an update_risk_assessment that succeeds, called
\* directly or by calculate_overall_risk, records as old level the
\* risk_level before the call, as new level the level passed and as factor
\* count the length of the list passed; at all times the old level of each
\* such entry is the new level of the one before it, and LOW in the first.
C34_AuditChain ==
    /\ [][C34_Step]_vars
    /\ []C34_Chained(C34_Updates(audit_trail))

\* an update to HIGH followed by one that leaves HIGH
C34_Witness ==
    \E k \in DOMAIN audit_trail :
        /\ k > 1
        /\ audit_trail[k].action = "update_risk_assessment"
        /\ audit_trail[k].metadata.old_risk_level = "HIGH"
        /\ audit_trail[k].metadata.new_risk_level # "HIGH"
        /\ audit_trail[k].metadata.risk_factors_count = 1

\* the attempts of a request are at most MAX_RETRIES, and no attempt has
\* contacted a provider twice
C35_Bounded ==
    /\ llm.attempt_number <= MAX_RETRIES
    /\ CallsOf("primary", llm.calls) <= llm.attempt_number
    /\ CallsOf("secondary", llm.calls) <= CallsOf("primary", llm.calls)
    /\ Len(llm.calls) <= 2 * MAX_RETRIES

\* a request ends in RetryError after its last attempt only
C35_Step ==
    result'.raised = "RetryError" /\ result' # result =>
        /\ llm'.pc = "idle"
        /\ llm'.attempt_number = MAX_RETRIES

\* C35: a request to LLMService.analyze_response makes at most MAX_RETRIES
\* attempts, an attempt contacts the primary provider at most once and the
\* secondary provider at most once, the request fails with RetryError after
\* the last attempt only, and every request ends, whatever the providers
\* answer.
C35_Terminates ==
    /\ []C35_Bounded
    /\ [][C35_Step]_vars
    /\ (llm.pc # "idle" ~> llm.pc = "idle")

\* both providers failed in each of the five attempts
C35_Witness ==
    /\ result.op = "LLMService.analyze_response"
    /\ result.raised = "RetryError"
    /\ llm.pc = "idle"
    /\ CallsOf("primary", llm.calls) = MAX_RETRIES
    /\ CallsOf("secondary", llm.calls) = MAX_RETRIES

\* the error analyze_response raises when it rejects the stored value of
\* the j-th response
C36_Rejection(j) ==
    <<InvalidResponse(validate_response(QuestionOf(j), responses[j].value).errors)>>

C36_Step ==
    /\ calc'.pc = "await" => ~calc'.sanitized.enc
    /\ CalcEnded /\ result'.raised = "ValueError" =>
           \A j \in DOMAIN responses : result'.errors # C36_Rejection(j)

\* C36 as stated: what calculate_overall_risk validates, sanitizes and hands
\* to the analyzer is the answer as it was submitted, not the stored
\* ciphertext, and the calculation never fails with the validation error
\* of a recorded answer.
C36_Original == [][C36_Step]_vars

\* C37 as stated: an answer that RiskAssessmentService.analyze_response has
\* accepted, and whose sanitized text it hands to the analyzer, is accepted
\* by the validation LLMService.analyze_response makes of that text, for a
\* question of any kind.
C37_Original ==
    calc.pc = "analyze" => validate_response(questions[calc.i], calc.sanitized).ok

\* no request of the service is in flight
C38_Quiet == \A t \in 1..MaxTasks : service.tasks[t].pc = "idle"

\* C38 as stated: whenever no request of LLMService is in flight, the
\* current provider of the service is the configured primary provider,
\* whatever the order in which concurrent requests fail over to the
\* secondary provider and restore the field.
C38_Original == C38_Quiet => service.current_provider = PRIMARY_PROVIDER

\* the analyses are those of the answers now stored, one for each in order
C39_OfStored(done, rs) ==
    /\ Len(done) = Len(rs)
    /\ \A i \in DOMAIN done :
           /\ done[i].key = rs[i].key
           /\ done[i].sanitized = SanitizedValue(rs[i].value)

C39_Step ==
    CalcEnded /\ result'.ok =>
        /\ C39_OfStored(analyses', responses')
        /\ risk_score' = C32_Committed(C11_Sum(analyses'))

\* C39 as stated: the score a calculation commits is 100 x min(1, sum of raw
\* score x weight) over the analyses of exactly the answers stored at the
\* commit, also when add_response has replaced an analysed answer while the
\* calculation was suspended.
C39_Original == [][C39_Step]_vars

\* every response is stored under the id of a question of the
\* questionnaire, so the loop of the calculation passes over none
C40_Answered ==
    \A i \in DOMAIN responses :
        /\ HasQuestion(questions, responses[i].key)
        /\ NextAnswered(i) = i

\* no step removes a question, and a calculation that returns has analysed
\* every response, in the order of the dict
C40_Step ==
    /\ IsPrefix(questions, questions')
    /\ CalcEnded /\ result'.ok =>
           /\ Len(analyses') = Len(responses)
           /\ \A i \in DOMAIN responses : analyses'[i].key = responses[i].key

\* C40: under add_question, add_response, update_risk_assessment and
\* calculate_overall_risk every key of responses is the id of a question of
\* the questionnaire and questions are never removed, so the calculation
\* never passes over a response for want of its question, and one that
\* returns has analysed every recorded response.
C40_ResponsesAnswerQuestions ==
    /\ []C40_Answered
    /\ [][C40_Step]_vars

\* a calculation over the answers to two questions has returned
C40_Witness ==
    /\ result.op = "calculate_overall_risk"
    /\ result.ok
    /\ Len(questions) = 2
    /\ Len(responses) = 2
    /\ Len(analyses) = 2

====
